---- MODULE Spec2Model ----
(***************************************************************************)
(* Orchestration logic of the YouTube media-retrieval utility:             *)
(*   src/app.py          the interactive (UI) variant                      *)
(*   src/backend_api.py  the HTTP API variant                              *)
(*                                                                         *)
(* The module holds several state machines, one per subsystem, each with   *)
(* its own specification; a specification leaves the variables of the      *)
(* other subsystems at their idle values.                                  *)
(*   Spec          a video/audio download job of the UI variant            *)
(*   SpecFair      Spec with weak fairness on the worker and the poller    *)
(*   SpecJobList   Spec for a session that may already hold a file        *)
(*   SpecPath      unique_path and the write that follows, one caller at   *)
(*                 a time; SpecPathRace: the same with concurrent jobs     *)
(*   SpecPick      pick_stream_url's format scoring                        *)
(*   SpecShots     a screenshot job of the UI variant                      *)
(*   SpecShotsClose  SpecShots where the consumer may abandon the job       *)
(*   SpecApiShots  a screenshot job of the HTTP API variant                *)
(*   SpecDownload  GET /api/download/{filename}                            *)
(*   SpecApiMedia  a video or audio job of the HTTP API variant            *)
(*   SpecBothShots a UI and an API screenshot request, one of them invalid *)
(*   SpecNorm      normalize_watch_url                                     *)
(*   SpecNormTwice normalize_watch_url applied to its own result           *)
(*   SpecMeta      the Metadata Resolver (header and resolution lists)     *)
(*   SpecName      the name of an audio job's final file                   *)
(*   SpecOpts      the format options both variants hand the library       *)
(***************************************************************************)
EXTENDS Integers, Sequences, FiniteSets, TLC

\* ------------------------------------------------------------------------
\* Bounds of the model
\* ------------------------------------------------------------------------
\* Largest byte count (downloaded or total) a library progress callback reports.
MaxBytes == 2
\* Number of "downloading" callbacks the library makes in one job.
MaxHooks == 3
\* Callers of unique_path that share one destination folder.
Callers == 2
\* Files the callers write into that folder, in total.
MaxWrites == 3
\* Formats in the list the metadata probe returns to pick_stream_url.
MaxFormats == 3
\* Frames ffmpeg writes while the stream-sampling loop watches the folder.
MaxFrames == 2
\* Longest video the local decoder opens, in half-seconds.
MaxDuration == 3
\* Files present in the temp directory tree when a download is requested.
MaxFiles == 3
\* Longest video id in the links given to normalize_watch_url.
MaxIdLen == 2
\* Formats in the list the library reports to the resolution probe.
MaxProbeFormats == 3
\* longest video title drawn
MaxTitleLen == 2

\* ------------------------------------------------------------------------
\* State
\* ------------------------------------------------------------------------
\* A video/audio download job of the UI variant.
VARIABLES
    kind,            \* "video" or "audio": which of the two orchestrators runs
    url_ok,          \* the url argument is non-empty after strip()
    save_to_folder,  \* save_to_folder and user_folder
    cancel_ev,       \* threading.Event of the job: "none" before it is created
    progress_pct,    \* progress_state["pct"]
    result_q,        \* queue.Queue of results
    err_q,           \* queue.Queue of (kind, message) entries
    pc_worker,       \* position of the worker thread
    hook_d,          \* the dict d the library passed to the running hook
    lib_active,      \* the library is downloading a stream
    lib_done,        \* bytes of the current stream downloaded so far
    lib_total,       \* total bytes of the current stream (0: unknown)
    lib_streams,     \* streams the library has finished
    hooks_used,      \* "downloading" callbacks made so far
    pc_poll,         \* position of the generator
    last_pct,        \* the generator's local last_pct
    file_list,       \* the generator's video_list / audio_list
    events           \* what the generator has yielded, in order

jobVars == <<kind, url_ok, save_to_folder, cancel_ev, progress_pct, result_q,
             err_q, pc_worker, hook_d, lib_active, lib_done, lib_total,
             lib_streams, hooks_used, pc_poll, last_pct, file_list, events>>

\* unique_path and the files written to the paths it returns.
VARIABLES
    fs,        \* the names that exist in the directory
    up_pc,     \* per caller: "idle", "probe" (inside unique_path), "write"
    up_base,   \* per caller: unique_path's base, after safe_name
    up_ext,    \* per caller: unique_path's ext, after lstrip(".")
    up_i,      \* per caller: unique_path's i (0: the plain candidate is being tried)
    up_cand,   \* per caller: unique_path's cand / the returned path
    writes,    \* the files written so far: [by, path, existed]
    concurrent \* the callers run concurrently (TRUE) or one after the other (FALSE)

pathVars == <<fs, up_pc, up_base, up_ext, up_i, up_cand, writes, concurrent>>

\* pick_stream_url.
VARIABLES
    pick_target,   \* target_height (0: None)
    pick_formats,  \* info["formats"], in the library's order
    pick_result    \* [status, chosen]: pending, or what pick_stream_url returned or raised

pickVars == <<pick_target, pick_formats, pick_result>>

\* A screenshot job of the UI variant (run_screenshots_stream).
VARIABLES
    s_url_ok,     \* the url argument is non-empty after strip()
    s_interval,   \* interval, in half-seconds (0: not positive)
    s_mode_fast,  \* mode_fast
    s_save,       \* save_to_folder and user_folder
    s_pc,         \* position of the generator
    s_cancel,     \* cancel_ev: "none" before it is created
    s_events,     \* what the generator has yielded, in order
    s_proc,       \* the ffmpeg process: none, running, exited, terminated, killed
    s_shots,      \* shot_*.png files in the gallery folder
    s_last_count, \* ffmpeg_extract_frames_from_url's last_count
    s_hooks,      \* progress callbacks of the local-decode download so far
    s_dur,        \* opencv_extract_stream's duration, in half-seconds
    s_t,          \* opencv_extract_stream's t, in half-seconds
    s_last_ok,    \* opencv_extract_stream's last_ok_t (-1: none)
    s_paths       \* opencv_extract_stream's paths: the timestamp label of each

shotVars == <<s_url_ok, s_interval, s_mode_fast, s_save, s_pc, s_cancel, s_events,
              s_proc, s_shots, s_last_count, s_hooks, s_dur, s_t, s_last_ok, s_paths>>

\* A screenshot job of the HTTP API variant (extract_screenshots.generate_screenshots).
VARIABLES
    a_url_ok,    \* request.url is non-empty after strip()
    a_interval,  \* request.interval, in half-seconds (0: not positive)
    a_save,      \* request.save_to_folder and request.user_folder
    a_pc,        \* position of the generator
    a_events,    \* the events streamed so far, in order
    a_dur,       \* duration, in half-seconds
    a_t,         \* t, in half-seconds
    a_last_ok,   \* last_ok_t (-1: none)
    a_paths      \* paths: the timestamp label of each

apiVars == <<a_url_ok, a_interval, a_save, a_pc, a_events, a_dur, a_t, a_last_ok, a_paths>>

\* GET /api/download/{filename} (download_file).
VARIABLES
    d_files,     \* the files that exist: [dir, name]
    d_request,   \* the filename of the request being answered ("": none yet)
    d_response   \* the response: [status, dir] (status 0: none yet)

downloadVars == <<d_files, d_request, d_response>>

\* A video or audio job of the HTTP API variant
\* (download_video.generate_video, download_audio.generate_audio).
VARIABLES
    m_kind,       \* "video" or "audio"
    m_mode,       \* request.audio_mode (audio jobs)
    m_url_ok,     \* request.url is non-empty after strip()
    m_ffmpeg_ok,  \* an ffmpeg binary can be resolved on this machine
    m_save,       \* request.save_to_folder and request.user_folder
    m_pc,         \* position of the generator
    m_events,     \* the events streamed so far, in order
    m_lib_calls,  \* calls of ydl.extract_info(norm, download=True) so far
    m_session,    \* session_dir: "none", "exists", "removed"
    m_artifact    \* the job's file: "none", "produced", "final", "removed"

mediaVars == <<m_kind, m_mode, m_url_ok, m_ffmpeg_ok, m_save, m_pc, m_events,
               m_lib_calls, m_session, m_artifact>>

\* One call of normalize_watch_url.
VARIABLES
    n_url,       \* the argument, a string (sequence of characters and words)
    n_pc,        \* "call" before the call, "returned" after it
    n_result     \* what the call returned: [none, url]

normVars == <<n_url, n_pc, n_result>>

\* One run of the Metadata Resolver: fetch_header_html followed by
\* probe_resolutions_labels (on_url_change), or get_video_info.
VARIABLES
    h_variant,   \* "ui" (on_url_change) or "api" (get_video_info)
    h_url_ok,    \* the URL is non-empty after strip()
    h_oembed,    \* what oembed_title returns for this URL ("": None)
    h_scrape,    \* what scrape_exact_title returns for this URL ("": None)
    h_pc,        \* position in the resolver
    h_asked,     \* the sources whose title has been asked for, in order
    h_title,     \* title ("": None or empty)
    h_thumb,     \* thumb
    h_info,      \* outcome of extract_info in the header step: [state, title, thumbnail]
    h_probe,     \* outcome of extract_info in probe_resolutions_labels
    h_formats,   \* info["formats"] of the probe
    h_heights,   \* heights
    h_vlabels,   \* the video resolution list returned
    h_outcome    \* "pending", "returned" or "raised" (to the caller)

metaVars == <<h_variant, h_url_ok, h_oembed, h_scrape, h_pc, h_asked, h_title, h_thumb,
              h_info, h_probe, h_formats, h_heights, h_vlabels, h_outcome>>

\* The name of an audio job's final file (_download_audio_blocking,
\* download_audio.generate_audio). Strings are sequences of characters.
VARIABLES
    w_variant,   \* "ui" or "api"
    w_title,     \* info.get("title", "audio")
    w_mode,      \* audio_mode
    w_label,     \* bitrate_label
    w_ext,       \* extension of the file the library produced (Original mode)
    w_tag,       \* what now_tag() returns
    w_pc,        \* "idle", "call", "named" or "raised"
    w_name       \* basename of download_path

nameVars == <<w_variant, w_title, w_mode, w_label, w_ext, w_tag, w_pc, w_name>>

\* The format options handed to the extraction library for one request, by the
\* UI variant and by the HTTP API variant.
VARIABLES
    o_kind,     \* "video" or "audio"
    o_height,   \* height (0: None)
    o_mp4,      \* container_pref == "MP4"
    o_preset,   \* quality_preset
    o_mode,     \* audio_mode
    o_ui,       \* ydl_opts of the UI variant: format, format_sort (<<>>: key absent)
    o_api       \* ydl_opts of the API variant

optsVars == <<o_kind, o_height, o_mp4, o_preset, o_mode, o_ui, o_api>>

vars == <<jobVars, pathVars, pickVars, shotVars, apiVars, downloadVars, mediaVars,
          normVars, metaVars,
          nameVars,
          optsVars>>

\* What an action of one subsystem leaves alone: the other subsystems.
JobOnly == UNCHANGED <<pathVars, pickVars, shotVars, apiVars, downloadVars, mediaVars,
                        normVars, metaVars,
    nameVars,
    optsVars>>
PathOnly == UNCHANGED <<jobVars, pickVars, shotVars, apiVars, downloadVars, mediaVars,
                         normVars, metaVars,
    nameVars,
    optsVars>>
PickOnly == UNCHANGED <<jobVars, pathVars, shotVars, apiVars, downloadVars, mediaVars,
                         normVars, metaVars,
    nameVars,
    optsVars>>
ShotsOnly == UNCHANGED <<jobVars, pathVars, pickVars, apiVars, downloadVars, mediaVars,
                          normVars, metaVars,
    nameVars,
    optsVars>>
ApiOnly == UNCHANGED <<jobVars, pathVars, pickVars, shotVars, downloadVars, mediaVars,
                        normVars, metaVars,
    nameVars,
    optsVars>>
DownloadOnly == UNCHANGED <<jobVars, pathVars, pickVars, shotVars, apiVars, mediaVars,
                             normVars, metaVars,
    nameVars,
    optsVars>>
MediaOnly == UNCHANGED <<jobVars, pathVars, pickVars, shotVars, apiVars, downloadVars,
                          normVars, metaVars,
    nameVars,
    optsVars>>
NormOnly == UNCHANGED <<jobVars, pathVars, pickVars, shotVars, apiVars, downloadVars,
                         mediaVars, metaVars,
    nameVars,
    optsVars>>
MetaOnly == UNCHANGED <<jobVars, pathVars, pickVars, shotVars, apiVars, downloadVars,
                         mediaVars, normVars,
    nameVars,
    optsVars>>
NameOnly == UNCHANGED <<jobVars, pathVars, pickVars, shotVars,
    apiVars, downloadVars, mediaVars, normVars, metaVars,
    optsVars>>
OptsOnly == UNCHANGED <<jobVars, pathVars, pickVars, shotVars,
    apiVars, downloadVars, mediaVars, normVars, metaVars, nameVars>>

\* ========================================================================
\* A video/audio download job of the UI variant
\*   run_get_full_video_stream / run_get_full_audio_stream  (the generator)
\*   worker, _download_*_blocking, _yt_dlp_with_progress    (the thread)
\*   cancel_generic                                         (the Cancel button)
\* ========================================================================
NoHook == [status |-> "none", downloaded_bytes |-> 0, total_bytes |-> 0]

\* Python's max(a, b) and min(a, b) on integers.
Max(a, b) == IF a >= b THEN a ELSE b
Min(a, b) == IF a <= b THEN a ELSE b

\* The streams the format expression asks the library for:
\* "bestvideo...+bestaudio.../best" is two streams (or one, by "/best"),
\* "bestaudio/best" is one.
StreamsOf(k) == IF k = "video" THEN 2 ELSE 1

\* hook(d), after the cancellation check: the new value of progress_state["pct"].
HookPct(d, old) ==
    IF d.status = "downloading"
    THEN IF d.total_bytes > 0
         THEN Max(0, Min(100, (d.downloaded_bytes * 100) \div d.total_bytes))
         ELSE old
    ELSE IF d.status = "finished" THEN 100 ELSE old

\* One yielded tuple: the status text's kind, the progress bar's value, and
\* whether the job's cancellation token was set when it was yielded.
Event(k, p) == [kind |-> k, pct |-> p, cancel_set |-> (cancel_ev = "set")]

\* A repeated identical "Cancelling..." notice (one per 0.2 s poll) is recorded once.
Emit(ev) ==
    IF ev.kind = "Cancelling" /\ Len(events) > 0 /\ events[Len(events)] = ev
    THEN events
    ELSE Append(events, ev)

\* gr.update(value=last_pct if last_pct>=0 else 0, ...)
ShownPct == IF last_pct >= 0 THEN last_pct ELSE 0

\* The state at the call, with the session's list of files as it is handed in.
JobStart(given) ==
    /\ kind \in {"video", "audio"}
    /\ url_ok \in BOOLEAN
    /\ save_to_folder \in BOOLEAN
    /\ cancel_ev = "none"
    /\ progress_pct = 0
    /\ result_q = <<>>
    /\ err_q = <<>>
    /\ pc_worker = "idle"
    /\ hook_d = NoHook
    /\ lib_active = FALSE
    /\ lib_done = 0
    /\ lib_total = 0
    /\ lib_streams = 0
    /\ hooks_used = 0
    /\ pc_poll = "entry"
    /\ last_pct = -1
    /\ file_list = given
    /\ events = <<>>

\* a first job of the session: the list is empty
JobInit == JobStart(<<>>)

JobIdle ==
    /\ kind = "video"
    /\ url_ok = FALSE
    /\ save_to_folder = FALSE
    /\ cancel_ev = "none"
    /\ progress_pct = 0
    /\ result_q = <<>>
    /\ err_q = <<>>
    /\ pc_worker = "idle"
    /\ hook_d = NoHook
    /\ lib_active = FALSE
    /\ lib_done = 0
    /\ lib_total = 0
    /\ lib_streams = 0
    /\ hooks_used = 0
    /\ pc_poll = "done"
    /\ last_pct = -1
    /\ file_list = <<>>
    /\ events = <<>>

workerVars == <<pc_worker, hook_d, lib_active, lib_done, lib_total, lib_streams,
                hooks_used, progress_pct, result_q, err_q>>
pollVars == <<pc_poll, last_pct, file_list, events>>
inputVars == <<kind, url_ok, save_to_folder>>

\* ---- the generator, up to its first yield ----

\* if not url or not url.strip(): yield ... "Please paste a valid YouTube link."; return
ValidateReject ==
    /\ JobOnly
    /\ pc_poll = "entry"
    /\ ~url_ok
    /\ events' = Emit(Event("Invalid", 0))
    /\ pc_poll' = "done"
    /\ UNCHANGED <<inputVars, cancel_ev, workerVars, last_pct, file_list>>

\* cancel_ev = threading.Event(); ...; threading.Thread(target=worker).start()
StartWorker ==
    /\ JobOnly
    /\ pc_poll = "entry"
    /\ url_ok
    /\ cancel_ev' = "clear"
    /\ pc_worker' = "ffmpeg"
    /\ pc_poll' = "starting"
    /\ UNCHANGED <<inputVars, progress_pct, result_q, err_q, hook_d, lib_active,
                   lib_done, lib_total, lib_streams, hooks_used, last_pct,
                   file_list, events>>

\* yield ..., "Starting... 0%", ..., cancel_ev ; last_pct = -1
YieldStarting ==
    /\ JobOnly
    /\ pc_poll = "starting"
    /\ events' = Emit(Event("Starting", 0))
    /\ pc_poll' = "cond"
    /\ UNCHANGED <<inputVars, cancel_ev, workerVars, last_pct, file_list>>

\* ---- the worker thread ----

\* worker(): except Cancelled -> err_q.put(("CANCELLED", ...));
\*           except Exception -> err_q.put(("ERROR", ...))
WorkerRaise(tag) ==
    /\ err_q' = Append(err_q, tag)
    /\ pc_worker' = "done"
    /\ hook_d' = NoHook

\* if not resolve_ffmpeg_exe(ffmpeg_path): raise RuntimeError("FFmpeg not found...")
FfmpegMissing ==
    /\ JobOnly
    /\ pc_worker = "ffmpeg"
    /\ WorkerRaise("ERROR")
    /\ UNCHANGED <<inputVars, cancel_ev, progress_pct, result_q, lib_active,
                   lib_done, lib_total, lib_streams, hooks_used, pollVars>>

\* ffmpeg resolved: the options are built and ydl.extract_info(url, download=True) starts
FfmpegFound ==
    /\ JobOnly
    /\ pc_worker = "ffmpeg"
    /\ pc_worker' = "lib"
    /\ UNCHANGED <<inputVars, cancel_ev, progress_pct, result_q, err_q, hook_d,
                   lib_active, lib_done, lib_total, lib_streams, hooks_used, pollVars>>

\* The library starts to download the next stream it was asked for.
LibStartStream ==
    /\ JobOnly
    /\ pc_worker = "lib"
    /\ ~lib_active
    /\ lib_streams < StreamsOf(kind)
    /\ \E total \in 0..MaxBytes :
          /\ lib_total' = total
          /\ lib_done' = 0
          /\ lib_active' = TRUE
    /\ UNCHANGED <<inputVars, cancel_ev, progress_pct, result_q, err_q, pc_worker,
                   hook_d, lib_streams, hooks_used, pollVars>>

\* The library calls hook({"status": "downloading", ...}) for the current stream.
LibDownloading ==
    /\ JobOnly
    /\ pc_worker = "lib"
    /\ lib_active
    /\ hooks_used < MaxHooks
    /\ \E done \in lib_done..MaxBytes :
          /\ lib_done' = done
          /\ hook_d' = [status |-> "downloading", downloaded_bytes |-> done,
                        total_bytes |-> lib_total]
    /\ hooks_used' = hooks_used + 1
    /\ pc_worker' = "hook_check"
    /\ UNCHANGED <<inputVars, cancel_ev, progress_pct, result_q, err_q,
                   lib_active, lib_total, lib_streams, pollVars>>

\* The library calls hook({"status": "finished", ...}): the current stream is complete.
LibFinished ==
    /\ JobOnly
    /\ pc_worker = "lib"
    /\ lib_active
    /\ hook_d' = [status |-> "finished", downloaded_bytes |-> lib_done,
                  total_bytes |-> lib_total]
    /\ lib_active' = FALSE
    /\ lib_streams' = lib_streams + 1
    /\ pc_worker' = "hook_check"
    /\ UNCHANGED <<inputVars, cancel_ev, progress_pct, result_q, err_q,
                   lib_done, lib_total, hooks_used, pollVars>>

\* A variant whose worker takes Cancelled by its general handler.
HookCancelled_AsError ==
    /\ JobOnly
    /\ pc_worker = "hook_check"
    /\ cancel_ev = "set"
    /\ WorkerRaise("ERROR")
    /\ UNCHANGED <<inputVars, cancel_ev, progress_pct, result_q, lib_active,
                   lib_done, lib_total, lib_streams, hooks_used, pollVars>>

\* hook: if cancel_event is not None and cancel_event.is_set(): raise Cancelled(...)
HookCancelled ==
    /\ JobOnly
    /\ pc_worker = "hook_check"
    /\ cancel_ev = "set"
    /\ WorkerRaise("CANCELLED")
    /\ UNCHANGED <<inputVars, cancel_ev, progress_pct, result_q, lib_active,
                   lib_done, lib_total, lib_streams, hooks_used, pollVars>>

\* hook: the token is not set, the hook goes on to its try block
HookPass ==
    /\ JobOnly
    /\ pc_worker = "hook_check"
    /\ cancel_ev # "set"
    /\ pc_worker' = "hook_write"
    /\ UNCHANGED <<inputVars, cancel_ev, progress_pct, result_q, err_q, hook_d,
                   lib_active, lib_done, lib_total, lib_streams, hooks_used, pollVars>>

\* hook: progress_state["pct"] = ... ; the hook returns to the library
HookWrite ==
    /\ JobOnly
    /\ pc_worker = "hook_write"
    /\ progress_pct' = HookPct(hook_d, progress_pct)
    /\ hook_d' = NoHook
    /\ pc_worker' = "lib"
    /\ UNCHANGED <<inputVars, cancel_ev, result_q, err_q, lib_active, lib_done,
                   lib_total, lib_streams, hooks_used, pollVars>>

\* ydl.extract_info raises (network, extraction or post-processing failure)
LibRaise ==
    /\ JobOnly
    /\ pc_worker = "lib"
    /\ WorkerRaise("ERROR")
    /\ UNCHANGED <<inputVars, cancel_ev, progress_pct, result_q, lib_active,
                   lib_done, lib_total, lib_streams, hooks_used, pollVars>>

\* ydl.extract_info returns info: every stream it started is finished
LibReturn ==
    /\ JobOnly
    /\ pc_worker = "lib"
    /\ ~lib_active
    /\ lib_streams >= 1
    /\ pc_worker' = "post"
    /\ UNCHANGED <<inputVars, cancel_ev, progress_pct, result_q, err_q, hook_d,
                   lib_active, lib_done, lib_total, lib_streams, hooks_used, pollVars>>

\* unique_path(...); shutil.move(fp, final_path); result_q.put(...)
WorkerPut ==
    /\ JobOnly
    /\ pc_worker = "post"
    /\ result_q' = Append(result_q, "artifact")
    /\ pc_worker' = "done"
    /\ UNCHANGED <<inputVars, cancel_ev, progress_pct, err_q, hook_d, lib_active,
                   lib_done, lib_total, lib_streams, hooks_used, pollVars>>

\* the produced file cannot be found or moved: shutil.move raises
WorkerMoveFails ==
    /\ JobOnly
    /\ pc_worker = "post"
    /\ WorkerRaise("ERROR")
    /\ UNCHANGED <<inputVars, cancel_ev, progress_pct, result_q, lib_active,
                   lib_done, lib_total, lib_streams, hooks_used, pollVars>>

\* ---- the polling loop ----

\* A variant whose loop also ends when the token is set.
PollCond_StopsOnCancel ==
    /\ JobOnly
    /\ pc_poll = "cond"
    /\ pc_poll' = IF err_q = <<>> /\ result_q = <<>> /\ cancel_ev # "set"
                  THEN "notice" ELSE "after"
    /\ UNCHANGED <<inputVars, cancel_ev, workerVars, last_pct, file_list, events>>

\* while err_q.empty() and result_q.empty():
PollCond ==
    /\ JobOnly
    /\ pc_poll = "cond"
    /\ pc_poll' = IF err_q = <<>> /\ result_q = <<>> THEN "notice" ELSE "after"
    /\ UNCHANGED <<inputVars, cancel_ev, workerVars, last_pct, file_list, events>>

\* if cancel_ev.is_set(): yield ..., "Cancelling...", ...
PollNotice ==
    /\ JobOnly
    /\ pc_poll = "notice"
    /\ events' = IF cancel_ev = "set" THEN Emit(Event("Cancelling", ShownPct))
                 ELSE events
    /\ pc_poll' = "read"
    /\ UNCHANGED <<inputVars, cancel_ev, workerVars, last_pct, file_list>>

\* pct = progress_state.get("pct", 0)
\* if pct != last_pct: yield ..., f"Downloading... {pct}%", ...; last_pct = pct
\* time.sleep(0.2)
PollRead ==
    /\ JobOnly
    /\ pc_poll = "read"
    /\ IF progress_pct # last_pct
       THEN /\ events' = Emit(Event("Downloading", progress_pct))
            /\ last_pct' = progress_pct
       ELSE UNCHANGED <<events, last_pct>>
    /\ pc_poll' = "cond"
    /\ UNCHANGED <<inputVars, cancel_ev, workerVars, file_list>>

\* if not err_q.empty(): kind, msg = err_q.get(); yield "Cancelled." / f"Error: {msg}"; return
PollError ==
    /\ JobOnly
    /\ pc_poll = "after"
    /\ err_q # <<>>
    /\ events' = Emit(Event(IF Head(err_q) = "CANCELLED" THEN "Cancelled" ELSE "Error",
                            ShownPct))
    /\ err_q' = Tail(err_q)
    /\ pc_poll' = "done"
    /\ UNCHANGED <<inputVars, cancel_ev, progress_pct, result_q, pc_worker, hook_d,
                   lib_active, lib_done, lib_total, lib_streams, hooks_used,
                   last_pct, file_list>>

\* video_fp, height = result_q.get(); msg = ...
PollResult ==
    /\ JobOnly
    /\ pc_poll = "after"
    /\ err_q = <<>>
    /\ result_q # <<>>
    /\ result_q' = Tail(result_q)
    /\ pc_poll' = IF save_to_folder THEN "copy" ELSE "append"
    /\ UNCHANGED <<inputVars, cancel_ev, progress_pct, err_q, pc_worker, hook_d,
                   lib_active, lib_done, lib_total, lib_streams, hooks_used,
                   last_pct, file_list, events>>

\* os.makedirs(dst, exist_ok=True); dest = unique_path(...); shutil.copy2(video_fp, dest)
CopyToFolder ==
    /\ JobOnly
    /\ pc_poll = "copy"
    /\ pc_poll' = "append"
    /\ UNCHANGED <<inputVars, cancel_ev, workerVars, last_pct, file_list, events>>

\* os.makedirs or shutil.copy2 raises (no permission, disk full, dst is a file):
\* nothing in the generator catches it
CopyToFolderRaises ==
    /\ JobOnly
    /\ pc_poll = "copy"
    /\ pc_poll' = "raised"
    /\ UNCHANGED <<inputVars, cancel_ev, workerVars, last_pct, file_list, events>>

\* A variant that returns a list holding the new file only.
YieldSuccess_FreshList ==
    /\ JobOnly
    /\ pc_poll = "append"
    /\ file_list' = <<"artifact">>
    /\ events' = Emit(Event("Success", 100))
    /\ pc_poll' = "done"
    /\ UNCHANGED <<inputVars, cancel_ev, workerVars, last_pct>>

\* video_list.append(video_fp); yield gr.update(value=100, ...), ..., "... File ready."
YieldSuccess ==
    /\ JobOnly
    /\ pc_poll = "append"
    /\ file_list' = Append(file_list, "artifact")
    /\ events' = Emit(Event("Success", 100))
    /\ pc_poll' = "done"
    /\ UNCHANGED <<inputVars, cancel_ev, workerVars, last_pct>>

\* ---- the Cancel button ----

\* A variant in which a second press of the button clears the token.
CancelGeneric_Toggle ==
    /\ JobOnly
    /\ Len(events) > 0
    /\ cancel_ev \in {"clear", "set"}
    /\ cancel_ev' = IF cancel_ev = "clear" THEN "set" ELSE "clear"
    /\ UNCHANGED <<inputVars, workerVars, pollVars>>

\* cancel_generic(cancel_ev): if cancel_ev: cancel_ev.set()
\* The button's state holds this job's token once the first yield has stored it.
CancelGeneric ==
    /\ JobOnly
    /\ Len(events) > 0
    /\ cancel_ev = "clear"
    /\ cancel_ev' = "set"
    /\ UNCHANGED <<inputVars, workerVars, pollVars>>

JobNext ==
    \/ ValidateReject \/ StartWorker \/ YieldStarting
    \/ FfmpegMissing \/ FfmpegFound
    \/ LibStartStream \/ LibDownloading \/ LibFinished
    \/ HookCancelled \/ HookPass \/ HookWrite
    \/ LibRaise \/ LibReturn \/ WorkerPut \/ WorkerMoveFails
    \/ PollCond \/ PollNotice \/ PollRead \/ PollError \/ PollResult
    \/ CopyToFolder \/ CopyToFolderRaises \/ YieldSuccess
    \/ CancelGeneric

\* ---- what the claims about a job speak of ----

Terminal == {"Success", "Cancelled", "Error"}
TerminalAt(i) == events[i].kind \in Terminal
TerminalCount == Cardinality({i \in 1..Len(events) : TerminalAt(i)})

\* C1: the progress percentages a video/audio job yields are non-decreasing
\* until its terminal event, for every sequence of library callbacks.
C1_ProgressNonDecreasing ==
    \A i, j \in 1..Len(events) :
        (i < j /\ ~TerminalAt(i) /\ ~TerminalAt(j)) => events[i].pct <= events[j].pct

\* C2: a job whose token was set before its terminal event was yielded ends
\* Cancelled, neither Errored nor Succeeded.
C2_CancelYieldsCancelled ==
    \A i \in 1..Len(events) :
        (TerminalAt(i) /\ events[i].cancel_set) => events[i].kind = "Cancelled"

\* C3: once the token is set, the polling loop yields no "Downloading... N%".
C3_NoProgressAfterCancel ==
    \A i \in 1..Len(events) :
        events[i].kind = "Downloading" => ~events[i].cancel_set

\* C4: a job that passed validation ends with exactly one terminal event, and
\* no exception leaves the generator.
C4_OneTerminalNoEscape ==
    /\ pc_poll # "raised"
    /\ (pc_poll = "done" /\ url_ok) =>
          (TerminalCount = 1 /\ TerminalAt(Len(events)))

\* The steps of the worker thread: worker(), the blocking download it calls,
\* the library inside it and the progress hook.
\* C23: a job that passed validation yields "Starting... 0%" once and first, then
\* only "Downloading..." and "Cancelling..." events, then one terminal event
\* (success, "Cancelled." or "Error: ..."), and nothing after it; a job that has
\* ended has yielded its terminal event.
C23_EventOrder ==
    url_ok =>
        /\ Len(events) > 0 => (events[1].kind = "Starting" /\ events[1].pct = 0)
        /\ \A i \in 2..Len(events) : events[i].kind # "Starting"
        /\ \A i \in 1..Len(events) :
              events[i].kind \in {"Starting", "Downloading", "Cancelling"} \cup Terminal
        /\ \A i \in 1..Len(events) : TerminalAt(i) => i = Len(events)
        /\ pc_poll \in {"done", "raised"} =>
              (Len(events) > 0 /\ TerminalAt(Len(events)))

\* The worker has put its entry on result_q or err_q.
WorkerPosted == pc_worker = "done"

\* C24: no terminal event is yielded before the worker has posted its queue
\* entry; with the token set and nothing posted yet, the generator is still in
\* its polling loop and what it yields there is not terminal.
C24_NoTerminalBeforeWorkerPosts ==
    /\ [](\A i \in 1..Len(events) : TerminalAt(i) => WorkerPosted)
    /\ []((cancel_ev = "set" /\ ~WorkerPosted) => pc_poll \in {"cond", "notice", "read"})
    /\ [][(url_ok /\ ~WorkerPosted' /\ events' # events) =>
             events'[Len(events')].kind \in {"Starting", "Downloading", "Cancelling"}]_vars

C24_Witness ==
    /\ WorkerPosted
    /\ Len(events) > 1
    /\ events[Len(events)].kind = "Cancelled"
    /\ \E i \in 1..Len(events) : events[i].kind = "Cancelling"

\* Entries on the two queues together.
Queued == Len(result_q) + Len(err_q)

\* C25: the worker posts one entry in all: the queues never hold more than one
\* entry between them, the worker ends by the step that posts, posts nothing after
\* it, and an err_q entry is CANCELLED exactly when the hook raised Cancelled and
\* ERROR otherwise.
C25_OneQueueEntry ==
    /\ [](Queued <= 1 /\ ~(result_q # <<>> /\ err_q # <<>>))
    /\ [][(Queued' > Queued) <=> (pc_worker # "done" /\ pc_worker' = "done")]_vars
    /\ [][(Queued' > Queued) => Queued' = Queued + 1]_vars
    /\ [][Len(err_q') > Len(err_q) =>
             /\ err_q'[Len(err_q')] \in {"CANCELLED", "ERROR"}
             /\ err_q'[Len(err_q')] = "CANCELLED" <=> HookCancelled]_vars

C25_Witness ==
    /\ err_q = <<"CANCELLED">>
    /\ result_q = <<>>
    /\ pc_worker = "done"

\* The lists a job may be handed: none yet, or the file of an earlier job.
GivenLists == { <<>>, <<"old">> }

\* The generator yields an event of one of these kinds in this step.
Yields(kinds) == events' # events /\ events'[Len(events')].kind \in kinds

\* C29: the list of downloaded files changes only in the step that yields
\* success, which appends the new artifact to it; a job that yields "Cancelled.",
\* "Error: ..." or the validation message yields the list it was given.
C29_ListChangedOnlyBySuccess ==
    /\ [][file_list' # file_list => Yields({"Success"})]_vars
    /\ [][Yields({"Success"}) => file_list' = Append(file_list, "artifact")]_vars
    /\ [][Yields({"Cancelled", "Error", "Invalid"}) => file_list' = file_list]_vars
    /\ []((Len(events) > 0 /\ events[Len(events)].kind \in {"Cancelled", "Error", "Invalid"})
            => file_list \in GivenLists)
    /\ []((Len(events) > 0 /\ events[Len(events)].kind = "Success")
            => \E g \in GivenLists : file_list = Append(g, "artifact"))

C29_Witness ==
    /\ pc_poll = "done"
    /\ events[Len(events)].kind = "Success"
    /\ file_list = <<"old", "artifact">>

WorkerStep ==
    \/ FfmpegMissing \/ FfmpegFound
    \/ LibStartStream \/ LibDownloading \/ LibFinished
    \/ HookCancelled \/ HookPass \/ HookWrite
    \/ LibRaise \/ LibReturn \/ WorkerPut \/ WorkerMoveFails

\* The steps of the generator, driven by the framework that iterates it.
PollStep ==
    \/ ValidateReject \/ StartWorker \/ YieldStarting
    \/ PollCond \/ PollNotice \/ PollRead \/ PollError \/ PollResult
    \/ CopyToFolder \/ CopyToFolderRaises \/ YieldSuccess

\* The generator has finished: it returned after its last yield, or an
\* exception of the copy to the user folder ended it.
Ended == pc_poll \in {"done", "raised"}

CallerIds == 1..Callers

\* re.sub(r'[\\/:*?"<>|]+', "_", s): every run of these characters becomes one "_"
ForbiddenChars == {"\\", "/", ":", "*", "?", "\"", "<", ">", "|"}
RECURSIVE SubForbidden(_, _)
SubForbidden(s, inRun) ==
    IF s = <<>> THEN <<>>
    ELSE IF Head(s) \in ForbiddenChars
         THEN (IF inRun THEN <<>> ELSE <<"_">>) \o SubForbidden(Tail(s), TRUE)
         ELSE <<Head(s)>> \o SubForbidden(Tail(s), FALSE)

\* str.strip(): leading and trailing whitespace removed
Whitespace == {" ", "\t", "\n", "\r"}
RECURSIVE LStripSet(_, _)
LStripSet(s, chars) ==
    IF s # <<>> /\ Head(s) \in chars THEN LStripSet(Tail(s), chars) ELSE s
RECURSIVE RStripSet(_, _)
RStripSet(s, chars) ==
    IF s # <<>> /\ s[Len(s)] \in chars
    THEN RStripSet(SubSeq(s, 1, Len(s) - 1), chars) ELSE s

\* safe_name(s)
safe_name(s) == RStripSet(LStripSet(SubForbidden(s, FALSE), Whitespace), Whitespace)

\* f"{i:03d}": decimal digits, zero-padded to at least three
DigitChar(d) == <<"0", "1", "2", "3", "4", "5", "6", "7", "8", "9">>[d + 1]
RECURSIVE Decimal(_)
Decimal(n) == IF n < 10 THEN <<DigitChar(n)>>
              ELSE Decimal(n \div 10) \o <<DigitChar(n % 10)>>
RECURSIVE ZeroPad(_, _)
ZeroPad(s, width) == IF Len(s) >= width THEN s ELSE ZeroPad(<<"0">> \o s, width)
Fmt03d(i) == ZeroPad(Decimal(i), 3)

\* unique_path's candidates: f"{base}.{ext}" and f"{base}-{i:03d}.{ext}"
Candidate(base, ext, i) ==
    IF i = 0 THEN base \o <<".">> \o ext
    ELSE base \o <<"-">> \o Fmt03d(i) \o <<".">> \o ext

\* if not os.path.exists(cand): return cand   (both places)
ReturnsCand_NoRecheck(cand, i, files) == i >= 1 \/ cand \notin files
ReturnsCand(cand, i, files) == cand \notin files

\* The base names and extensions the callers pass.
BaseArgs == { <<"a">>, <<"a", "-", "0", "0", "1">>, <<"a", ":", "?">>, <<"a", "_">> }
ExtArgs == { <<"x">>, <<".", "x">> }
\* Files the folder may hold before the first call.
OldFiles == { <<"a", ".", "x">>, <<"a", "-", "0", "0", "1", ".", "x">>,
              <<"a", "-", "0", "0", "2", ".", "x">> }

PathInit ==
    /\ fs \in SUBSET OldFiles
    /\ up_pc = [j \in CallerIds |-> "idle"]
    /\ up_base = [j \in CallerIds |-> <<>>]
    /\ up_ext = [j \in CallerIds |-> <<>>]
    /\ up_i = [j \in CallerIds |-> 0]
    /\ up_cand = [j \in CallerIds |-> <<>>]
    /\ writes = <<>>
    /\ concurrent \in BOOLEAN

PathIdle ==
    /\ fs = {}
    /\ up_pc = [j \in CallerIds |-> "idle"]
    /\ up_base = [j \in CallerIds |-> <<>>]
    /\ up_ext = [j \in CallerIds |-> <<>>]
    /\ up_i = [j \in CallerIds |-> 0]
    /\ up_cand = [j \in CallerIds |-> <<>>]
    /\ writes = <<>>
    /\ concurrent = FALSE

\* No other caller is between its call of unique_path and its write.
OthersIdle(j) == \A k \in CallerIds \ {j} : up_pc[k] = "idle"

\* unique_path(dirpath, base, ext) is entered:
\* base = safe_name(base); ext = ext.lstrip("."); cand = os.path.join(dirpath, f"{base}.{ext}")
UniquePathEnter(j) ==
    /\ PathOnly
    /\ up_pc[j] = "idle"
    /\ concurrent \/ OthersIdle(j)
    /\ Len(writes) + Cardinality({k \in CallerIds : up_pc[k] # "idle"}) < MaxWrites
    /\ \E b \in BaseArgs, e \in ExtArgs :
          /\ up_base' = [up_base EXCEPT ![j] = safe_name(b)]
          /\ up_ext' = [up_ext EXCEPT ![j] = LStripSet(e, {"."})]
          /\ up_cand' = [up_cand EXCEPT ![j] =
                            Candidate(safe_name(b), LStripSet(e, {"."}), 0)]
    /\ up_i' = [up_i EXCEPT ![j] = 0]
    /\ up_pc' = [up_pc EXCEPT ![j] = "probe"]
    /\ UNCHANGED <<fs, writes, concurrent>>

\* if not os.path.exists(cand): return cand
UniquePathReturn(j) ==
    /\ PathOnly
    /\ up_pc[j] = "probe"
    /\ ReturnsCand(up_cand[j], up_i[j], fs)
    /\ up_pc' = [up_pc EXCEPT ![j] = "write"]
    /\ UNCHANGED <<fs, up_base, up_ext, up_i, up_cand, writes, concurrent>>

\* cand exists: i = 1 the first time, i += 1 after; cand = f"{base}-{i:03d}.{ext}"
UniquePathNext(j) ==
    /\ PathOnly
    /\ up_pc[j] = "probe"
    /\ ~ReturnsCand(up_cand[j], up_i[j], fs)
    /\ up_i' = [up_i EXCEPT ![j] = up_i[j] + 1]
    /\ up_cand' = [up_cand EXCEPT ![j] = Candidate(up_base[j], up_ext[j], up_i[j] + 1)]
    /\ UNCHANGED <<fs, up_pc, up_base, up_ext, writes, concurrent>>

\* shutil.copy2(fp, dest) (or shutil.move): dest is created, or overwritten if it exists
WriteDest(j) ==
    /\ PathOnly
    /\ up_pc[j] = "write"
    /\ writes' = Append(writes, [by |-> j, path |-> up_cand[j],
                                 existed |-> up_cand[j] \in fs])
    /\ fs' = fs \cup {up_cand[j]}
    /\ up_pc' = [up_pc EXCEPT ![j] = "idle"]
    /\ UNCHANGED <<up_base, up_ext, up_i, up_cand, concurrent>>

PathNext ==
    \E j \in CallerIds :
        UniquePathEnter(j) \/ UniquePathReturn(j) \/ UniquePathNext(j) \/ WriteDest(j)

\* C5: two concurrent probe-then-write sequences never write the same file:
\* no write lands on a path that exists, and the paths written are distinct.
C5_NoConcurrentOverwrite ==
    /\ \A w \in 1..Len(writes) : ~writes[w].existed
    /\ \A v, w \in 1..Len(writes) : v # w => writes[v].path # writes[w].path

\* C6: called sequentially, unique_path returns a path that does not exist:
\* the plain name if it is free, otherwise the numbered name with the smallest
\* number >= 1 that is free; and files written to the returned paths never
\* overwrite one another.
NameOf(base, ext, n) ==
    IF n = 0 THEN base \o <<".">> \o ext
    ELSE base \o <<"-">>
         \o (IF n < 10 THEN <<"0", "0">> ELSE IF n < 100 THEN <<"0">> ELSE <<>>)
         \o Decimal(n) \o <<".">> \o ext
C6_SequentialUnique ==
    /\ \A j \in CallerIds :
          up_pc[j] = "write" =>
             /\ up_cand[j] \notin fs
             /\ up_cand[j] = NameOf(up_base[j], up_ext[j], up_i[j])
             /\ \A m \in 0..(up_i[j] - 1) : NameOf(up_base[j], up_ext[j], m) \in fs
    /\ \A w \in 1..Len(writes) : ~writes[w].existed
    /\ \A v, w \in 1..Len(writes) : v # w => writes[v].path # writes[w].path

\* C6 witness: the same name was requested twice, the second call went past
\* an occupied numbered candidate, and both files were written.
C6_Witness ==
    /\ Len(writes) >= 2
    /\ \E j \in CallerIds : up_pc[j] = "write" /\ up_i[j] >= 2

\* ========================================================================
\* pick_stream_url: the stream the stream-sampling strategy reads
\* ========================================================================

\* 10**6 in score(f)
OverCeilingScore == 1000000

\* A format dict: height (0: absent or None), protocol, ext, vcodec, and whether
\* it carries a url.
Fmt(h, proto, e, vc, u) ==
    [height |-> h, protocol |-> proto, ext |-> e, vcodec |-> vc, has_url |-> u]

FormatSet ==
    { Fmt(h, pr, "mp4", "avc1", TRUE) :
          h \in {360, 720, 1080}, pr \in {"https", "m3u8_native"} }
    \cup { Fmt(720, "https", "3gp", "avc1", TRUE),
           Fmt(0, "https", "m4a", "none", TRUE),
           Fmt(1080, "https", "webm", "vp9", FALSE) }

TargetSet == {0, 240, 360, 720}

NoFormat == Fmt(0, "", "", "none", FALSE)
PickOutcome(st, f) == [status |-> st, chosen |-> f]

SeqsUpTo(S, n) == UNION { [1..k -> S] : k \in 0..n }

\* fmts = [f for f in info["formats"] if f.get("vcodec") not in ("none", None)]
HasVideo(f) == f.vcodec # "none"

\* score(f): (-(h if (not target_height or h <= target_height) else 10**6), penal)
Score(f, target) ==
    LET h == f.height
        penal == IF f.protocol \in {"https", "http"} /\ f.ext \in {"mp4", "webm"}
                 THEN 0 ELSE 1
    IN  << -(IF target = 0 \/ h <= target THEN h ELSE OverCeilingScore), penal >>

\* Python's ordering of the key tuples
TupleLess(a, b) == a[1] < b[1] \/ (a[1] = b[1] /\ a[2] < b[2])

\* sorted(fmts, key=score)[0]: sorted is stable, so the first of the list's
\* formats with the least key
Chosen(fmts, target) ==
    LET idx == { i \in 1..Len(fmts) : HasVideo(fmts[i]) }
        best == CHOOSE i \in idx :
                   \A j \in idx :
                      /\ ~TupleLess(Score(fmts[j], target), Score(fmts[i], target))
                      /\ (j < i => TupleLess(Score(fmts[i], target), Score(fmts[j], target)))
    IN  fmts[best]

PickInit ==
    /\ pick_target \in TargetSet
    /\ pick_formats \in SeqsUpTo(FormatSet, MaxFormats)
    /\ pick_result = PickOutcome("pending", NoFormat)

PickIdle ==
    /\ pick_target = 0
    /\ pick_formats = <<>>
    /\ pick_result = PickOutcome("pending", NoFormat)

\* if not fmts_sorted: raise RuntimeError("No streamable video formats found.")
PickNoFormats ==
    /\ PickOnly
    /\ pick_result.status = "pending"
    /\ \A i \in 1..Len(pick_formats) : ~HasVideo(pick_formats[i])
    /\ pick_result' = PickOutcome("NoFormats", NoFormat)
    /\ UNCHANGED <<pick_target, pick_formats>>

\* if not stream_url: raise RuntimeError("Failed to resolve video stream URL.")
PickNoUrl ==
    /\ PickOnly
    /\ pick_result.status = "pending"
    /\ \E i \in 1..Len(pick_formats) : HasVideo(pick_formats[i])
    /\ ~Chosen(pick_formats, pick_target).has_url
    /\ pick_result' = PickOutcome("NoUrl", NoFormat)
    /\ UNCHANGED <<pick_target, pick_formats>>

\* return stream_url, headers
PickReturn ==
    /\ PickOnly
    /\ pick_result.status = "pending"
    /\ \E i \in 1..Len(pick_formats) : HasVideo(pick_formats[i])
    /\ Chosen(pick_formats, pick_target).has_url
    /\ pick_result' = PickOutcome("ok", Chosen(pick_formats, pick_target))
    /\ UNCHANGED <<pick_target, pick_formats>>

PickNext == PickNoFormats \/ PickNoUrl \/ PickReturn

\* C7: with a ceiling requested and a candidate at or below it, the format
\* chosen is the tallest one not above the ceiling, never one above it; among
\* candidates of the chosen height, a plain http(s) mp4/webm one goes first.
Plain(f) == f.protocol \in {"https", "http"} /\ f.ext \in {"mp4", "webm"}
Candidates == { pick_formats[i] : i \in { k \in 1..Len(pick_formats) : HasVideo(pick_formats[k]) } }
C7_TallestUnderCeiling ==
    (/\ pick_result.status = "ok"
     /\ pick_target > 0
     /\ \E f \in Candidates : f.height <= pick_target)
    => /\ pick_result.chosen.height <= pick_target
       /\ \A f \in Candidates :
             f.height <= pick_target => f.height <= pick_result.chosen.height
       /\ \A f \in Candidates :
             (f.height = pick_result.chosen.height /\ Plain(f)) => Plain(pick_result.chosen)

\* ========================================================================
\* A screenshot job of the UI variant
\*   run_screenshots_stream              (the generator)
\*   ffmpeg_extract_frames_from_url      (stream sampling)
\*   _yt_dlp_with_progress, opencv_extract_stream   (local decode)
\*   cancel_generic                      (the Cancel button)
\* Times are in half-seconds, so that an interval may be shorter than a second.
\* ========================================================================

s_inputs == <<s_url_ok, s_interval, s_mode_fast, s_save>>
s_sampling == <<s_proc, s_shots, s_last_count>>
s_decode == <<s_hooks, s_dur, s_t, s_last_ok, s_paths>>

\* pct = min(100, max(1, int(len(paths) * 4)))
FramePct(n) == Min(100, Max(1, 4 * n))

\* human_ts(t): str(timedelta(seconds=int(t))), the whole seconds of t
WholeSeconds(t) == t \div 2

\* One yielded tuple: the status text's kind, the progress bar's value, the
\* exception text it quotes, the number of files it reports, and whether the
\* token was set when it was yielded.
ShotEvent(k, p, why, n) ==
    [kind |-> k, pct |-> p, why |-> why, n |-> n, cancel_set |-> (s_cancel = "set")]

\* A variant that lists the stream-sampling files only.
GalleryCount_ShotsOnly == s_shots

\* sorted(glob("shot_*.png")) + sorted(glob("screenshot_*.png")): the files on disk
GalleryCount == s_shots + Cardinality({ s_paths[i] : i \in 1..Len(s_paths) })

ShotsInit ==
    /\ s_url_ok \in BOOLEAN
    /\ s_interval \in {0, 1, 2}
    /\ s_mode_fast \in BOOLEAN
    /\ s_save \in BOOLEAN
    /\ s_pc = "entry"
    /\ s_cancel = "none"
    /\ s_events = <<>>
    /\ s_proc = "none"
    /\ s_shots = 0
    /\ s_last_count = 0
    /\ s_hooks = 0
    /\ s_dur = 0
    /\ s_t = 0
    /\ s_last_ok = -1
    /\ s_paths = <<>>

ShotsIdle ==
    /\ s_url_ok = FALSE
    /\ s_interval = 0
    /\ s_mode_fast = FALSE
    /\ s_save = FALSE
    /\ s_pc = "done"
    /\ s_cancel = "none"
    /\ s_events = <<>>
    /\ s_proc = "none"
    /\ s_shots = 0
    /\ s_last_count = 0
    /\ s_hooks = 0
    /\ s_dur = 0
    /\ s_t = 0
    /\ s_last_ok = -1
    /\ s_paths = <<>>

\* if not url or not url.strip(): yield ..., "Please paste a valid YouTube link.", None; return
ShotsRejectUrl ==
    /\ ShotsOnly
    /\ s_pc = "entry"
    /\ ~s_url_ok
    /\ s_events' = Append(s_events, ShotEvent("Invalid", 0, "url", 0))
    /\ s_pc' = "done"
    /\ UNCHANGED <<s_inputs, s_cancel, s_sampling, s_decode>>

\* A variant that checks the interval only after the token and the session
\* directory have been created.
ShotsRejectInterval_AfterSetup ==
    /\ ShotsOnly
    /\ s_pc = "entry"
    /\ s_url_ok
    /\ s_interval <= 0
    /\ s_cancel' = "clear"
    /\ s_events' = Append(s_events, ShotEvent("Invalid", 0, "interval", 0))
    /\ s_pc' = "done"
    /\ UNCHANGED <<s_inputs, s_sampling, s_decode>>

\* if interval is None or interval <= 0: yield ..., "Interval must be > 0 sec.", None; return
ShotsRejectInterval ==
    /\ ShotsOnly
    /\ s_pc = "entry"
    /\ s_url_ok
    /\ s_interval <= 0
    /\ s_events' = Append(s_events, ShotEvent("Invalid", 0, "interval", 0))
    /\ s_pc' = "done"
    /\ UNCHANGED <<s_inputs, s_cancel, s_sampling, s_decode>>

\* cancel_ev = threading.Event(); session_dir = tempfile.mkdtemp(...); os.makedirs(gallery_dir)
ShotsSetup ==
    /\ ShotsOnly
    /\ s_pc = "entry"
    /\ s_url_ok
    /\ s_interval > 0
    /\ s_cancel' = "clear"
    /\ s_pc' = "starting"
    /\ UNCHANGED <<s_inputs, s_events, s_sampling, s_decode>>

\* yield gr.update(value=0, visible=True), [], None, "Starting... 0%", cancel_ev
ShotsStarting ==
    /\ ShotsOnly
    /\ s_pc = "starting"
    /\ s_events' = Append(s_events, ShotEvent("Starting", 0, "", 0))
    /\ s_pc' = "resolve"
    /\ UNCHANGED <<s_inputs, s_cancel, s_sampling, s_decode>>

\* ffmpeg_exe = resolve_ffmpeg_exe(...) found; if mode_fast and ffmpeg_exe: ... else: ...
ShotsFfmpegFound ==
    /\ ShotsOnly
    /\ s_pc = "resolve"
    /\ s_pc' = IF s_mode_fast THEN "pick" ELSE "download"
    /\ UNCHANGED <<s_inputs, s_cancel, s_events, s_sampling, s_decode>>

\* ffmpeg_exe is None: the else branch (local decode)
ShotsFfmpegMissing ==
    /\ ShotsOnly
    /\ s_pc = "resolve"
    /\ s_pc' = "download"
    /\ UNCHANGED <<s_inputs, s_cancel, s_events, s_sampling, s_decode>>

\* except Exception as e: yield gr.update(value=0, ...), [], None,
\*     f"Stream extraction failed ({e}); falling back...", cancel_ev
\* Cancelled is a subclass of Exception, so this handler takes it too.
FallBack(why) ==
    /\ s_events' = Append(s_events, ShotEvent("Fallback", 0, why, 0))
    /\ s_pc' = "download"

\* except Cancelled: yield gr.update(value=0, visible=False), None, None, "Cancelled.", cancel_ev
\* except Exception as e: yield gr.update(value=0, visible=False), None, None, f"Error: {e}", cancel_ev
ShotsRaise(k, why) ==
    /\ s_events' = Append(s_events, ShotEvent(k, 0, why, 0))
    /\ s_pc' = "done"

\* stream_url, headers = pick_stream_url(norm, height)
PickOk ==
    /\ ShotsOnly
    /\ s_pc = "pick"
    /\ s_pc' = "popen"
    /\ UNCHANGED <<s_inputs, s_cancel, s_events, s_sampling, s_decode>>

\* pick_stream_url raises (probe failure, no streamable format, no url)
PickRaises ==
    /\ ShotsOnly
    /\ s_pc = "pick"
    /\ FallBack("error")
    /\ UNCHANGED <<s_inputs, s_cancel, s_sampling, s_decode>>

\* proc = subprocess.Popen(cmd, ...); last_count = 0
SamplePopen ==
    /\ ShotsOnly
    /\ s_pc = "popen"
    /\ s_proc' = "running"
    /\ s_last_count' = 0
    /\ s_pc' = "sample_top"
    /\ UNCHANGED <<s_inputs, s_cancel, s_events, s_shots, s_decode>>

\* subprocess.Popen raises OSError
SamplePopenRaises ==
    /\ ShotsOnly
    /\ s_pc = "popen"
    /\ FallBack("error")
    /\ UNCHANGED <<s_inputs, s_cancel, s_sampling, s_decode>>

\* ffmpeg writes the next shot_%05d.png
FfmpegWritesFrame ==
    /\ ShotsOnly
    /\ s_proc = "running"
    /\ s_shots < MaxFrames
    /\ s_shots' = s_shots + 1
    /\ UNCHANGED <<s_inputs, s_pc, s_cancel, s_events, s_proc, s_last_count, s_decode>>

\* ffmpeg exits by itself (end of stream, or an error)
FfmpegExits ==
    /\ ShotsOnly
    /\ s_proc = "running"
    /\ s_proc' = "exited"
    /\ UNCHANGED <<s_inputs, s_pc, s_cancel, s_events, s_shots, s_last_count, s_decode>>

\* if cancel_event.is_set(): proc.terminate(); proc.wait(timeout=2) returns;
\*     raise Cancelled("Cancelled by user")
SampleCancelGraceful ==
    /\ ShotsOnly
    /\ s_pc = "sample_top"
    /\ s_cancel = "set"
    /\ s_proc' = IF s_proc = "running" THEN "terminated" ELSE s_proc
    /\ FallBack("Cancelled by user")
    /\ UNCHANGED <<s_inputs, s_cancel, s_shots, s_last_count, s_decode>>

\* ... proc.wait(timeout=2) times out: proc.kill(); raise Cancelled("Cancelled by user")
SampleCancelForced ==
    /\ ShotsOnly
    /\ s_pc = "sample_top"
    /\ s_cancel = "set"
    /\ s_proc = "running"
    /\ s_proc' = "killed"
    /\ FallBack("Cancelled by user")
    /\ UNCHANGED <<s_inputs, s_cancel, s_shots, s_last_count, s_decode>>

\* the token is not set: time.sleep(0.3)
SampleSleep ==
    /\ ShotsOnly
    /\ s_pc = "sample_top"
    /\ s_cancel # "set"
    /\ s_pc' = "sample_glob"
    /\ UNCHANGED <<s_inputs, s_cancel, s_events, s_sampling, s_decode>>

\* files = sorted(glob(...)); if len(files) != last_count:
\*     last_count = len(files); yield files, ...   (the caller yields pct)
SampleGlob ==
    /\ ShotsOnly
    /\ s_pc = "sample_glob"
    /\ IF s_shots # s_last_count
       THEN /\ s_last_count' = s_shots
            /\ s_events' = Append(s_events,
                                  ShotEvent("Saved", FramePct(s_shots), "", s_shots))
       ELSE UNCHANGED <<s_last_count, s_events>>
    /\ s_pc' = "sample_poll"
    /\ UNCHANGED <<s_inputs, s_cancel, s_proc, s_shots, s_decode>>

\* if proc.poll() is not None: files = ...; if len(files) != last_count: yield ...; break
SampleEnds ==
    /\ ShotsOnly
    /\ s_pc = "sample_poll"
    /\ s_proc # "running"
    /\ s_events' = IF s_shots # s_last_count
                   THEN Append(s_events, ShotEvent("Saved", FramePct(s_shots), "", s_shots))
                   ELSE s_events
    /\ s_pc' = "finalize"
    /\ UNCHANGED <<s_inputs, s_cancel, s_sampling, s_decode>>

\* proc.poll() is None: the loop goes round
SampleAgain ==
    /\ ShotsOnly
    /\ s_pc = "sample_poll"
    /\ s_proc = "running"
    /\ s_pc' = "sample_top"
    /\ UNCHANGED <<s_inputs, s_cancel, s_events, s_sampling, s_decode>>

\* A variant whose finally block sends nothing to the process.
SampleClosed_NoFinally ==
    /\ ShotsOnly
    /\ s_pc = "sample_poll"
    /\ Len(s_events) > 0
    /\ s_events[Len(s_events)].kind = "Saved"
    /\ s_pc' = "closed"
    /\ UNCHANGED <<s_inputs, s_cancel, s_events, s_sampling, s_decode>>

\* The consumer abandons the job while ffmpeg_extract_frames_from_url is suspended
\* at "yield files, ...": GeneratorExit is thrown in at the yield and the generator
\* leaves by its finally block: if proc.poll() is None: proc.terminate().
\* GeneratorExit is not an Exception, so run_screenshots_stream yields nothing more.
SampleClosed ==
    /\ ShotsOnly
    /\ s_pc = "sample_poll"
    /\ Len(s_events) > 0
    /\ s_events[Len(s_events)].kind = "Saved"
    /\ s_proc' = IF s_proc = "running" THEN "terminated" ELSE s_proc
    /\ s_pc' = "closed"
    /\ UNCHANGED <<s_inputs, s_cancel, s_events, s_shots, s_last_count, s_decode>>

\* The sampling generator has been created and is still alive.
Sampling == s_pc \in {"sample_top", "sample_glob", "sample_poll"}

\* C21: when the sampling loop sees the token set, the process is sent terminate
\* or, not having exited in the grace period, is killed, and Cancelled("Cancelled
\* by user") is raised; and however the sampling generator ends, a process it
\* spawned is not left running without a signal.
C21_ProcessNotLeftRunning ==
    /\ [][(s_pc = "sample_top" /\ s_cancel = "set" /\ s_pc' # s_pc) =>
             /\ s_proc = "running" => s_proc' \in {"terminated", "killed"}
             /\ s_proc' # "running"
             /\ Len(s_events') = Len(s_events) + 1
             /\ s_events'[Len(s_events')].why = "Cancelled by user"]_vars
    /\ []((s_proc # "none" /\ ~Sampling) => s_proc # "running")

C21_Witness ==
    /\ s_proc = "killed"
    /\ ~Sampling
    /\ \E i \in 1..Len(s_events) : s_events[i].why = "Cancelled by user"

\* _yt_dlp_with_progress: the library calls hook(d) and the token is set:
\* raise Cancelled, which leaves run_screenshots_stream's try by "except Cancelled"
DownloadHookCancelled ==
    /\ ShotsOnly
    /\ s_pc = "download"
    /\ s_cancel = "set"
    /\ ShotsRaise("Cancelled", "")
    /\ UNCHANGED <<s_inputs, s_cancel, s_sampling, s_decode>>

\* the library calls hook(d), the token is not set: progress_state is written
\* (this generator never reads it)
DownloadHook ==
    /\ ShotsOnly
    /\ s_pc = "download"
    /\ s_cancel # "set"
    /\ s_hooks < MaxHooks
    /\ s_hooks' = s_hooks + 1
    /\ UNCHANGED <<s_inputs, s_pc, s_cancel, s_events, s_sampling, s_dur, s_t,
                   s_last_ok, s_paths>>

\* ydl.extract_info raises
DownloadRaises ==
    /\ ShotsOnly
    /\ s_pc = "download"
    /\ ShotsRaise("Error", "error")
    /\ UNCHANGED <<s_inputs, s_cancel, s_sampling, s_decode>>

\* ydl.extract_info returns; video_fp = ...
DownloadReturns ==
    /\ ShotsOnly
    /\ s_pc = "download"
    /\ s_pc' = "open"
    /\ UNCHANGED <<s_inputs, s_cancel, s_events, s_sampling, s_decode>>

\* cap = cv2.VideoCapture(video_path); duration = frame_count / fps; t = 0.0; last_ok_t = -1.0
DecodeOpen ==
    /\ ShotsOnly
    /\ s_pc = "open"
    /\ \E d \in 0..MaxDuration : s_dur' = d
    /\ s_t' = 0
    /\ s_last_ok' = -1
    /\ s_paths' = <<>>
    /\ s_pc' = "decode_top"
    /\ UNCHANGED <<s_inputs, s_cancel, s_events, s_sampling, s_hooks>>

\* if not cap.isOpened(): raise RuntimeError("Failed to open video with OpenCV.")
DecodeOpenRaises ==
    /\ ShotsOnly
    /\ s_pc = "open"
    /\ ShotsRaise("Error", "error")
    /\ UNCHANGED <<s_inputs, s_cancel, s_sampling, s_decode>>

\* while t <= duration + 1e-3: if cancel_event.is_set(): raise Cancelled(...)
DecodeCancelled ==
    /\ ShotsOnly
    /\ s_pc = "decode_top"
    /\ s_t <= s_dur
    /\ s_cancel = "set"
    /\ ShotsRaise("Cancelled", "")
    /\ UNCHANGED <<s_inputs, s_cancel, s_sampling, s_decode>>

\* ... the token is not set: cap.set(CAP_PROP_POS_MSEC, t * 1000.0); cap.read()
DecodeSeek ==
    /\ ShotsOnly
    /\ s_pc = "decode_top"
    /\ s_t <= s_dur
    /\ s_cancel # "set"
    /\ s_pc' = "decode_read"
    /\ UNCHANGED <<s_inputs, s_cancel, s_events, s_sampling, s_decode>>

\* if not ret: if last_ok_t >= 0 and (t - last_ok_t) > interval_sec: break
\*             t += interval_sec; continue
DecodeReadFails ==
    /\ ShotsOnly
    /\ s_pc = "decode_read"
    /\ IF s_last_ok >= 0 /\ (s_t - s_last_ok) > s_interval
       THEN s_pc' = "decode_after" /\ s_t' = s_t
       ELSE s_pc' = "decode_top" /\ s_t' = s_t + s_interval
    /\ UNCHANGED <<s_inputs, s_cancel, s_events, s_sampling, s_hooks, s_dur,
                   s_last_ok, s_paths>>

\* img.save(f"screenshot_{human_ts(t)...}.png"); paths.append(fpath); last_ok_t = t;
\* t += interval_sec; yield paths, f"Saved {len(paths)} screenshot(s)..."
DecodeReadOk ==
    /\ ShotsOnly
    /\ s_pc = "decode_read"
    /\ s_paths' = Append(s_paths, WholeSeconds(s_t))
    /\ s_last_ok' = s_t
    /\ s_t' = s_t + s_interval
    /\ s_events' = Append(s_events, ShotEvent("Saved", FramePct(Len(s_paths) + 1), "",
                                              Len(s_paths) + 1))
    /\ s_pc' = "decode_top"
    /\ UNCHANGED <<s_inputs, s_cancel, s_sampling, s_hooks, s_dur>>

\* the while condition fails
DecodeLoopEnds ==
    /\ ShotsOnly
    /\ s_pc = "decode_top"
    /\ s_t > s_dur
    /\ s_pc' = "decode_after"
    /\ UNCHANGED <<s_inputs, s_cancel, s_events, s_sampling, s_decode>>

\* cap.release(); if not paths: raise RuntimeError("No screenshots were extracted.")
DecodeNoFrames ==
    /\ ShotsOnly
    /\ s_pc = "decode_after"
    /\ s_paths = <<>>
    /\ ShotsRaise("Error", "No screenshots were extracted.")
    /\ UNCHANGED <<s_inputs, s_cancel, s_sampling, s_decode>>

\* yield paths, f"Done. Extracted {len(paths)} screenshot(s)."   (the caller yields pct)
DecodeDone ==
    /\ ShotsOnly
    /\ s_pc = "decode_after"
    /\ s_paths # <<>>
    /\ s_events' = Append(s_events, ShotEvent("Extracted", FramePct(Len(s_paths)), "",
                                              Len(s_paths)))
    /\ s_pc' = "finalize"
    /\ UNCHANGED <<s_inputs, s_cancel, s_sampling, s_decode>>

\* files = sorted(glob(shot_*)) + sorted(glob(screenshot_*)); zip_paths(files, zip_path);
\* [copy to the user folder]; yield gr.update(value=100, ...), files, zip_path, "Done. ..."
FinalizeOk ==
    /\ ShotsOnly
    /\ s_pc = "finalize"
    /\ s_events' = Append(s_events, ShotEvent("Success", 100, "", GalleryCount))
    /\ s_pc' = "done"
    /\ UNCHANGED <<s_inputs, s_cancel, s_sampling, s_decode>>

\* os.makedirs(dst_dir) or shutil.copy2(zip_path, zip_dest) raises: inside the try
FinalizeCopyRaises ==
    /\ ShotsOnly
    /\ s_pc = "finalize"
    /\ s_save
    /\ ShotsRaise("Error", "error")
    /\ UNCHANGED <<s_inputs, s_cancel, s_sampling, s_decode>>

\* cancel_generic(cancel_ev), once the first yield has stored this job's token
ShotsCancel ==
    /\ ShotsOnly
    /\ Len(s_events) > 0
    /\ s_cancel = "clear"
    /\ s_cancel' = "set"
    /\ UNCHANGED <<s_inputs, s_pc, s_events, s_sampling, s_decode>>

ShotsNext ==
    \/ ShotsRejectUrl \/ ShotsRejectInterval \/ ShotsSetup \/ ShotsStarting
    \/ ShotsFfmpegFound \/ ShotsFfmpegMissing
    \/ PickOk \/ PickRaises \/ SamplePopen \/ SamplePopenRaises
    \/ FfmpegWritesFrame \/ FfmpegExits
    \/ SampleCancelGraceful \/ SampleCancelForced \/ SampleSleep
    \/ SampleGlob \/ SampleEnds \/ SampleAgain
    \/ DownloadHookCancelled \/ DownloadHook \/ DownloadRaises \/ DownloadReturns
    \/ DecodeOpen \/ DecodeOpenRaises \/ DecodeCancelled \/ DecodeSeek
    \/ DecodeReadFails \/ DecodeReadOk \/ DecodeLoopEnds \/ DecodeNoFrames \/ DecodeDone
    \/ FinalizeOk \/ FinalizeCopyRaises
    \/ ShotsCancel

ShotTerminalAt(i) == s_events[i].kind \in {"Success", "Cancelled", "Error"}

\* C8: the progress percentages a screenshot job yields are non-decreasing
\* until its terminal event, also across the fall back to local decode.
C8_ShotsProgressNonDecreasing ==
    \A i, j \in 1..Len(s_events) :
        (i < j /\ ~ShotTerminalAt(i) /\ ~ShotTerminalAt(j))
            => s_events[i].pct <= s_events[j].pct

\* C9: a cancellation observed by the stream-sampling loop never starts the
\* local-decode fallback: no "Stream extraction failed (Cancelled by user);
\* falling back" notice is yielded.
C9_CancelSkipsFallback ==
    \A i \in 1..Len(s_events) :
        s_events[i].kind = "Fallback" => s_events[i].why # "Cancelled by user"

\* C11: a screenshot job never reports success with an empty frame set: a
\* "Done. Extracted n screenshot(s)." event always has n > 0.
C11_NoEmptySuccess ==
    \A i \in 1..Len(s_events) :
        s_events[i].kind = "Success" => s_events[i].n > 0

\* C28: in the local-decode strategy the frames saved at distinct timestamps go
\* to distinct files, for every positive interval: the files on disk are as many
\* as the frames reported saved.
C28_DistinctFramePaths ==
    /\ \A i, j \in 1..Len(s_paths) : i # j => s_paths[i] # s_paths[j]
    /\ Cardinality({ s_paths[i] : i \in 1..Len(s_paths) }) = Len(s_paths)

a_inputs == <<a_url_ok, a_interval, a_save>>
a_decode == <<a_dur, a_t, a_last_ok, a_paths>>

\* progress = min(90, 30 + int(len(paths) * 60 / max(1, duration / request.interval)))
ApiFramePct(n, dur, interval) ==
    Min(90, 30 + (IF dur <= interval THEN 60 * n ELSE (60 * n * interval) \div dur))

\* One streamed event: what it is, its 'progress' (0 for an 'error' event, which
\* carries none) and the number of images it lists.
ApiEvent(k, p, n) == [kind |-> k, pct |-> p, n |-> n]

ApiInit ==
    /\ a_url_ok \in BOOLEAN
    /\ a_interval \in {0, 1, 2}
    /\ a_save \in BOOLEAN
    /\ a_pc = "entry"
    /\ a_events = <<>>
    /\ a_dur = 0
    /\ a_t = 0
    /\ a_last_ok = -1
    /\ a_paths = <<>>

ApiIdle ==
    /\ a_url_ok = FALSE
    /\ a_interval = 0
    /\ a_save = FALSE
    /\ a_pc = "done"
    /\ a_events = <<>>
    /\ a_dur = 0
    /\ a_t = 0
    /\ a_last_ok = -1
    /\ a_paths = <<>>

\* except Exception as e: yield {'error': str(e)}
ApiRaise(why) ==
    /\ a_events' = Append(a_events, ApiEvent("Error", 0, 0))
    /\ a_pc' = "done"

ApiYield(k, p, n, next) ==
    /\ a_events' = Append(a_events, ApiEvent(k, p, n))
    /\ a_pc' = next

\* if not request.url or not request.url.strip(): yield {'error': ...}; return
ApiRejectUrl ==
    /\ ApiOnly
    /\ a_pc = "entry"
    /\ ~a_url_ok
    /\ ApiYield("Invalid", 0, 0, "done")
    /\ UNCHANGED <<a_inputs, a_decode>>

\* if request.interval <= 0: yield {'error': 'Interval must be > 0 seconds'}; return
ApiRejectInterval ==
    /\ ApiOnly
    /\ a_pc = "entry"
    /\ a_url_ok
    /\ a_interval <= 0
    /\ ApiYield("Invalid", 0, 0, "done")
    /\ UNCHANGED <<a_inputs, a_decode>>

\* session_dir = tempfile.mkdtemp(...); yield {'status': 'Starting ...', 'progress': 0}
ApiStarting ==
    /\ ApiOnly
    /\ a_pc = "entry"
    /\ a_url_ok
    /\ a_interval > 0
    /\ ApiYield("Starting", 0, 0, "announce")
    /\ UNCHANGED <<a_inputs, a_decode>>

\* yield {'status': 'Downloading video...', 'progress': 15}
ApiAnnounce ==
    /\ ApiOnly
    /\ a_pc = "announce"
    /\ ApiYield("Downloading", 15, 0, "download")
    /\ UNCHANGED <<a_inputs, a_decode>>

\* ydl.extract_info(norm, download=True) raises
ApiDownloadRaises ==
    /\ ApiOnly
    /\ a_pc = "download"
    /\ ApiRaise("error")
    /\ UNCHANGED <<a_inputs, a_decode>>

\* it returns: yield {'status': 'Video download completed, processing...', 'progress': 25}
ApiDownloaded ==
    /\ ApiOnly
    /\ a_pc = "download"
    /\ ApiYield("Downloaded", 25, 0, "found")
    /\ UNCHANGED <<a_inputs, a_decode>>

\* video_fp = ...; yield {'status': 'Video downloaded, extracting screenshots...', 'progress': 30}
ApiExtracting ==
    /\ ApiOnly
    /\ a_pc = "found"
    /\ ApiYield("Extracting", 30, 0, "open")
    /\ UNCHANGED <<a_inputs, a_decode>>

\* cap = cv2.VideoCapture(video_fp); duration = ...; paths = []; t = 0.0; last_ok_t = -1.0
ApiOpen ==
    /\ ApiOnly
    /\ a_pc = "open"
    /\ \E d \in 0..MaxDuration : a_dur' = d
    /\ a_t' = 0
    /\ a_last_ok' = -1
    /\ a_paths' = <<>>
    /\ a_pc' = "decode"
    /\ UNCHANGED <<a_inputs, a_events>>

\* if not cap.isOpened(): raise RuntimeError("Failed to open video with OpenCV.")
ApiOpenRaises ==
    /\ ApiOnly
    /\ a_pc = "open"
    /\ ApiRaise("error")
    /\ UNCHANGED <<a_inputs, a_decode>>

\* while t <= duration + 1e-3: ret, frame = cap.read(); if not ret:
\*     if last_ok_t >= 0 and (t - last_ok_t) > request.interval: break
\*     t += request.interval; continue
ApiReadFails ==
    /\ ApiOnly
    /\ a_pc = "decode"
    /\ a_t <= a_dur
    /\ IF a_last_ok >= 0 /\ (a_t - a_last_ok) > a_interval
       THEN a_pc' = "decode_after" /\ a_t' = a_t
       ELSE a_pc' = "decode" /\ a_t' = a_t + a_interval
    /\ UNCHANGED <<a_inputs, a_events, a_dur, a_last_ok, a_paths>>

\* img.save(fpath); paths.append(fpath); last_ok_t = t; t += request.interval;
\* yield {'status': 'Saved n screenshot(s)...', 'progress': progress, 'images': paths}
ApiReadOk ==
    /\ ApiOnly
    /\ a_pc = "decode"
    /\ a_t <= a_dur
    /\ a_paths' = Append(a_paths, WholeSeconds(a_t))
    /\ a_last_ok' = a_t
    /\ a_t' = a_t + a_interval
    /\ ApiYield("Saved", ApiFramePct(Len(a_paths) + 1, a_dur, a_interval),
                Len(a_paths) + 1, "decode")
    /\ UNCHANGED <<a_inputs, a_dur>>

\* the while condition fails
ApiLoopEnds ==
    /\ ApiOnly
    /\ a_pc = "decode"
    /\ a_t > a_dur
    /\ a_pc' = "decode_after"
    /\ UNCHANGED <<a_inputs, a_events, a_decode>>

\* cap.release(); if not paths: raise RuntimeError("No screenshots were extracted.")
ApiNoFrames ==
    /\ ApiOnly
    /\ a_pc = "decode_after"
    /\ a_paths = <<>>
    /\ ApiRaise("No screenshots were extracted.")
    /\ UNCHANGED <<a_inputs, a_decode>>

\* yield {'status': 'Creating ZIP file...', 'progress': 85}
ApiCreatingZip ==
    /\ ApiOnly
    /\ a_pc = "decode_after"
    /\ a_paths # <<>>
    /\ ApiYield("CreatingZip", 85, 0, "zip")
    /\ UNCHANGED <<a_inputs, a_decode>>

\* with zipfile.ZipFile(...): ...; yield {'status': 'ZIP file created successfully', 'progress': 90}
ApiZipCreated ==
    /\ ApiOnly
    /\ a_pc = "zip"
    /\ ApiYield("ZipCreated", 90, 0, "copy")
    /\ UNCHANGED <<a_inputs, a_decode>>

\* [copy to the user folder]; yield {'status': 'Done. ...', 'progress': 100, 'complete': True, ...}
ApiComplete ==
    /\ ApiOnly
    /\ a_pc = "copy"
    /\ ApiYield("Complete", 100, Len(a_paths), "ready")
    /\ UNCHANGED <<a_inputs, a_decode>>

\* os.makedirs(dst_dir) or shutil.copy2(zip_path, zip_dest) raises
ApiCopyRaises ==
    /\ ApiOnly
    /\ a_pc = "copy"
    /\ a_save
    /\ ApiRaise("error")
    /\ UNCHANGED <<a_inputs, a_decode>>

\* yield {'status': 'Files ready for download. ...', 'progress': 100}
ApiFilesReady ==
    /\ ApiOnly
    /\ a_pc = "ready"
    /\ ApiYield("FilesReady", 100, 0, "done")
    /\ UNCHANGED <<a_inputs, a_decode>>

ApiNext ==
    \/ ApiRejectUrl \/ ApiRejectInterval \/ ApiStarting \/ ApiAnnounce
    \/ ApiDownloadRaises \/ ApiDownloaded \/ ApiExtracting
    \/ ApiOpen \/ ApiOpenRaises \/ ApiReadFails \/ ApiReadOk \/ ApiLoopEnds
    \/ ApiNoFrames \/ ApiCreatingZip \/ ApiZipCreated
    \/ ApiComplete \/ ApiCopyRaises \/ ApiFilesReady

\* The API half of C8 (the claim's counterexample is C8_ShotsProgressNonDecreasing):
\* the 'progress' values streamed before the completion event are non-decreasing.
ApiProgressNonDecreasing ==
    \A i, j \in 1..Len(a_events) :
        (i < j /\ a_events[i].kind \notin {"Error", "Complete", "FilesReady"}
               /\ a_events[j].kind \notin {"Error", "Complete", "FilesReady"})
            => a_events[i].pct <= a_events[j].pct

\* The request is one that validation rejects.
InvalidRequest(ok, interval) == ~ok \/ interval <= 0

\* C13: a screenshot request with an empty URL or an interval <= 0 gets exactly
\* one validation message and nothing else happens: no token and no session
\* directory are created, the library is not called, no process is spawned.
\* Both variants: the UI generator and the HTTP API generator.
C13_RejectedUpFront ==
    /\ InvalidRequest(s_url_ok, s_interval) =>
          /\ s_pc \in {"entry", "done"}
          /\ s_cancel = "none" /\ s_proc = "none" /\ s_shots = 0 /\ s_hooks = 0
          /\ s_pc = "entry" => s_events = <<>>
          /\ s_pc = "done" => Len(s_events) = 1 /\ s_events[1].kind = "Invalid"
    /\ InvalidRequest(a_url_ok, a_interval) =>
          /\ a_pc \in {"entry", "done"}
          /\ a_paths = <<>>
          /\ a_pc = "entry" => a_events = <<>>
          /\ a_pc = "done" => Len(a_events) = 1 /\ a_events[1].kind = "Invalid"

C13_Witness ==
    /\ s_url_ok /\ s_interval <= 0 /\ s_pc = "done" /\ Len(s_events) = 1
    /\ a_url_ok /\ a_interval <= 0 /\ a_pc = "done" /\ Len(a_events) = 1

\* ========================================================================
\* GET /api/download/{filename}
\*   download_file  (src/backend_api.py)
\* ========================================================================

\* tempfile.gettempdir() itself, session directories inside it, and a
\* directory outside it (a user folder).
TempDir == "tmp"
DirSet == {"tmp", "tmp/ytshots_a", "tmp/ytaudio_a", "tmp/ytvideo_a", "tmp/other_a", "home"}
NameSet == {"screenshots.zip", "a.mp4"}

\* glob.glob(os.path.join(tempfile.gettempdir(), "ytshots_*")), "ytaudio_*", "ytvideo_*"
SessionGlob == {"tmp/ytshots_a", "tmp/ytaudio_a", "tmp/ytvideo_a"}

\* possible_paths: the temp directory and every session directory, joined with filename
PossibleDirs == {TempDir} \cup SessionGlob

\* for path in possible_paths: if os.path.exists(path): file_path = path; break
FoundDirs(files, filename) ==
    { d \in PossibleDirs : [dir |-> d, name |-> filename] \in files }

\* The first existing path of possible_paths: the temp directory comes first,
\* the session directories follow in the order glob returns them (any order).
FirstFound(files, filename) ==
    IF TempDir \in FoundDirs(files, filename)
    THEN {TempDir}
    ELSE FoundDirs(files, filename)

\* The try block: raise HTTPException(status_code=404, ...) when no path exists,
\* else return FileResponse(path=file_path, ...).
TryBody(files, filename) ==
    IF FirstFound(files, filename) = {}
    THEN {[raised |-> TRUE, status |-> 404, dir |-> ""]}
    ELSE {[raised |-> FALSE, status |-> 200, dir |-> d] : d \in FirstFound(files, filename)}

\* except Exception as e: raise HTTPException(status_code=500, detail=str(e))
\* HTTPException is an Exception, so the 404 raised in the try block is caught here.
Respond(outcome) ==
    IF outcome.raised
    THEN [status |-> 500, dir |-> ""]
    ELSE [status |-> outcome.status, dir |-> outcome.dir]

DownloadInit ==
    /\ d_files = {}
    /\ d_request = ""
    /\ d_response = [status |-> 0, dir |-> ""]

DownloadIdle == DownloadInit

\* A job (or anything else) leaves a file in one of the directories.
FileAppears ==
    /\ DownloadOnly
    /\ Cardinality(d_files) < MaxFiles
    /\ \E d \in DirSet, n \in NameSet :
          /\ [dir |-> d, name |-> n] \notin d_files
          /\ d_files' = d_files \cup {[dir |-> d, name |-> n]}
    /\ UNCHANGED <<d_request, d_response>>

\* download_file(filename)
DownloadFile ==
    /\ DownloadOnly
    /\ \E n \in NameSet : \E outcome \in TryBody(d_files, n) :
          /\ d_request' = n
          /\ d_response' = Respond(outcome)
    /\ UNCHANGED d_files

DownloadNext == FileAppears \/ DownloadFile

\* What C10 requires of a response to a request for filename, given the files
\* that exist when the request is served.
AsSpecified(files, filename, response) ==
    IF FoundDirs(files, filename) = {}
    THEN response.status = 404
    ELSE response.status = 200 /\ response.dir \in FoundDirs(files, filename)

\* C10: every request is answered with 404 exactly when no file of that name is
\* in the temp directory or in a ytshots_*/ytaudio_*/ytvideo_* session
\* directory, and with that file otherwise.
C10_MissingFileIs404 ==
    [][(d_files' = d_files /\ d_request' # "")
         => AsSpecified(d_files, d_request', d_response')]_vars

\* ========================================================================
\* A video or audio job of the HTTP API variant
\*   download_video.generate_video, download_audio.generate_audio
\*   (src/backend_api.py)
\* ========================================================================

m_inputs == <<m_kind, m_mode, m_url_ok, m_ffmpeg_ok, m_save>>

AudioModes == {"Original (OPUS/WebM)", "MP3", "WAV", "FLAC"}

\* extract: whether the FFmpegExtractAudio postprocessor is added
Extract(k, mode) == k = "audio" /\ mode \in {"MP3", "WAV"}

\* else: raise RuntimeError("Unsupported audio mode.")
Unsupported(k, mode) ==
    k = "audio" /\ mode \notin {"Original (OPUS/WebM)", "MP3", "WAV"}

\* One streamed event: what it is and its 'progress' (0 for an 'error' event,
\* which carries none).
MediaEvent(k, p) == [kind |-> k, pct |-> p]

MediaInit ==
    /\ m_kind \in {"video", "audio"}
    /\ m_mode \in AudioModes
    /\ m_url_ok \in BOOLEAN
    /\ m_ffmpeg_ok \in BOOLEAN
    /\ m_save \in BOOLEAN
    /\ m_pc = "entry"
    /\ m_events = <<>>
    /\ m_lib_calls = 0
    /\ m_session = "none"
    /\ m_artifact = "none"

MediaIdle ==
    /\ m_kind = "video"
    /\ m_mode = "MP3"
    /\ m_url_ok = FALSE
    /\ m_ffmpeg_ok = FALSE
    /\ m_save = FALSE
    /\ m_pc = "done"
    /\ m_events = <<>>
    /\ m_lib_calls = 0
    /\ m_session = "none"
    /\ m_artifact = "none"

\* except Exception as e: yield {'error': str(e)}; the finally clause follows
MediaRaise ==
    /\ m_events' = Append(m_events, MediaEvent("Error", 0))
    /\ m_pc' = "cleanup"

\* if not request.url or not request.url.strip(): yield {'error': ...}; return
MediaRejectUrl ==
    /\ MediaOnly
    /\ m_pc = "entry"
    /\ ~m_url_ok
    /\ m_events' = Append(m_events, MediaEvent("Invalid", 0))
    /\ m_pc' = "done"
    /\ UNCHANGED <<m_inputs, m_lib_calls, m_session, m_artifact>>

\* yield {'status': 'Starting ... download...', 'progress': 0}
MediaStarting ==
    /\ MediaOnly
    /\ m_pc = "entry"
    /\ m_url_ok
    /\ m_events' = Append(m_events, MediaEvent("Starting", 0))
    /\ m_pc' = "configure"
    /\ UNCHANGED <<m_inputs, m_lib_calls, m_session, m_artifact>>

\* session_dir = tempfile.mkdtemp(...); the audio mode is none of the three:
\* raise RuntimeError("Unsupported audio mode.")
MediaUnsupportedMode ==
    /\ MediaOnly
    /\ m_pc = "configure"
    /\ Unsupported(m_kind, m_mode)
    /\ m_session' = "exists"
    /\ MediaRaise
    /\ UNCHANGED <<m_inputs, m_lib_calls, m_artifact>>

\* session_dir = tempfile.mkdtemp(...); ydl_opts = ...;
\* yield {'status': 'Downloading ...', 'progress': 30}
\* (no call of resolve_ffmpeg_exe: the options are built whether or not ffmpeg exists)
MediaDownloading ==
    /\ MediaOnly
    /\ m_pc = "configure"
    /\ ~Unsupported(m_kind, m_mode)
    /\ m_session' = "exists"
    /\ m_events' = Append(m_events, MediaEvent("Downloading", 30))
    /\ m_pc' = "download"
    /\ UNCHANGED <<m_inputs, m_lib_calls, m_artifact>>

\* with YoutubeDL(ydl_opts) as ydl: info = ydl.extract_info(norm, download=True) raises
MediaLibRaises ==
    /\ MediaOnly
    /\ m_pc = "download"
    /\ m_lib_calls' = m_lib_calls + 1
    /\ MediaRaise
    /\ UNCHANGED <<m_inputs, m_session, m_artifact>>

\* it returns; yield {'status': 'Processing ...', 'progress': 70}
MediaLibReturns ==
    /\ MediaOnly
    /\ m_pc = "download"
    /\ m_lib_calls' = m_lib_calls + 1
    /\ m_artifact' = "produced"
    /\ m_events' = Append(m_events, MediaEvent("Processing", 70))
    /\ m_pc' = "locate"
    /\ UNCHANGED <<m_inputs, m_session>>

\* audio with extract: no file of session_dir starts with the title and ends
\* with the final extension: raise RuntimeError("Failed to locate downloaded audio file")
MediaLocateFails ==
    /\ MediaOnly
    /\ m_pc = "locate"
    /\ Extract(m_kind, m_mode)
    /\ MediaRaise
    /\ UNCHANGED <<m_inputs, m_lib_calls, m_session, m_artifact>>

\* final_path = unique_path(session_dir, ...); shutil.move(fp, final_path)
MediaMoved ==
    /\ MediaOnly
    /\ m_pc = "locate"
    /\ m_artifact' = "final"
    /\ m_pc' = "copy"
    /\ UNCHANGED <<m_inputs, m_events, m_lib_calls, m_session>>

\* shutil.move raises (the guessed path does not exist)
MediaMoveRaises ==
    /\ MediaOnly
    /\ m_pc = "locate"
    /\ MediaRaise
    /\ UNCHANGED <<m_inputs, m_lib_calls, m_session, m_artifact>>

\* os.makedirs(dst) or shutil.copy2(final_path, dest) raises
MediaCopyRaises ==
    /\ MediaOnly
    /\ m_pc = "copy"
    /\ m_save
    /\ MediaRaise
    /\ UNCHANGED <<m_inputs, m_lib_calls, m_session, m_artifact>>

\* [copy to the user folder]; yield {'status': '... ready...', 'progress': 100,
\*     'complete': True, ..., 'download_url': download_url}
MediaComplete ==
    /\ MediaOnly
    /\ m_pc = "copy"
    /\ m_events' = Append(m_events, MediaEvent("Complete", 100))
    /\ m_pc' = "cleanup"
    /\ UNCHANGED <<m_inputs, m_lib_calls, m_session, m_artifact>>

\* finally: try: shutil.rmtree(session_dir) except: pass
MediaCleanup ==
    /\ MediaOnly
    /\ m_pc = "cleanup"
    /\ \/ /\ m_session' = "removed"
          /\ m_artifact' = IF m_artifact = "none" THEN "none" ELSE "removed"
       \/ UNCHANGED <<m_session, m_artifact>>
    /\ m_pc' = "done"
    /\ UNCHANGED <<m_inputs, m_events, m_lib_calls>>

\* C27: once the event stream of a job that announced its download_url has
\* ended, the file of that name is still in the job's session directory.
C27_ArtifactOutlivesStream ==
    (/\ m_pc = "done"
     /\ Len(m_events) > 0
     /\ m_events[Len(m_events)].kind = "Complete") =>
        (m_session # "removed" /\ m_artifact = "final")

MediaNext ==
    \/ MediaRejectUrl \/ MediaStarting \/ MediaUnsupportedMode \/ MediaDownloading
    \/ MediaLibRaises \/ MediaLibReturns
    \/ MediaLocateFails \/ MediaMoved \/ MediaMoveRaises
    \/ MediaCopyRaises \/ MediaComplete \/ MediaCleanup

\* C12: when ffmpeg cannot be resolved, a video or audio job never invokes the
\* extraction library, and it ends with an error event.
C12_NoLibraryWithoutFfmpeg ==
    (~m_ffmpeg_ok /\ m_url_ok) =>
        /\ m_lib_calls = 0
        /\ m_pc = "done" => m_events[Len(m_events)].kind = "Error"

\* ========================================================================
\* normalize_watch_url  (src/app.py; src/backend_api.py has the same text)
\* A string is a sequence whose elements are single characters ("/", "?",
\* "&", "=", "#", "+", " ", letters) and indivisible words ("https:",
\* "youtu.be", "www.youtube.com", "shorts", "watch", ...).
\* ========================================================================

\* The optional string the function returns.
None == [none |-> TRUE, url |-> <<>>]
Some(u) == [none |-> FALSE, url |-> u]

\* The first position of s holding an element of set, Len(s) + 1 if none.
RECURSIVE Find(_, _, _)
Find(s, set, i) ==
    IF i > Len(s) THEN Len(s) + 1
    ELSE IF s[i] \in set THEN i
    ELSE Find(s, set, i + 1)

From(s, i) == SubSeq(s, i, Len(s))
Upto(s, i) == SubSeq(s, 1, i)

\* str.strip(): whitespace removed at both ends
RECURSIVE LStrip(_, _)
LStrip(s, set) == IF s # <<>> /\ s[1] \in set THEN LStrip(Tail(s), set) ELSE s
RECURSIVE RStrip(_, _)
RStrip(s, set) ==
    IF s # <<>> /\ s[Len(s)] \in set THEN RStrip(Upto(s, Len(s) - 1), set) ELSE s
Strip(s, set) == RStrip(LStrip(s, set), set)

StartsWith(s, prefix) == Len(s) >= Len(prefix) /\ Upto(s, Len(prefix)) = prefix

\* urllib.parse.urlparse(u): scheme, then netloc if "//" follows, then the
\* fragment is cut at the first "#" and the query at the first "?" before it.
urlparse(u) ==
    LET hasScheme == u # <<>> /\ u[1] = "https:"
        rest == IF hasScheme THEN Tail(u) ELSE u
        hasNetloc == StartsWith(rest, <<"/", "/">>)
        afterSlashes == From(rest, 3)
        endNetloc == Find(afterSlashes, {"/", "?", "#"}, 1)
        netloc == IF hasNetloc THEN Upto(afterSlashes, endNetloc - 1) ELSE <<>>
        rest2 == IF hasNetloc THEN From(afterSlashes, endNetloc) ELSE rest
        hash == Find(rest2, {"#"}, 1)
        beforeHash == Upto(rest2, hash - 1)
        qmark == Find(beforeHash, {"?"}, 1)
    IN  [netloc |-> netloc,
         path |-> Upto(beforeHash, qmark - 1),
         query |-> From(beforeHash, qmark + 1)]

\* str.lower(), element by element
LowerWord(w) ==
    CASE w = "YOUTU.BE" -> "youtu.be"
      [] w = "WWW.YOUTUBE.COM" -> "www.youtube.com"
      [] OTHER -> w
Lower(s) == [i \in 1..Len(s) |-> LowerWord(s[i])]

\* name in host: the words that contain the name as a substring
WordsContaining(name) ==
    CASE name = "youtu.be" -> {"youtu.be"}
      [] name = "youtube.com" -> {"youtube.com", "www.youtube.com", "m.youtube.com"}
      [] OTHER -> {}
\* A variant that compares the whole host with the name.
Contains_WholeHost(host, name) == host = <<name>>
Contains(host, name) == \E i \in 1..Len(host) : host[i] \in WordsContaining(name)

\* s.split(sep)[0] for a one-character sep
FirstPiece(s, sep) == Upto(s, Find(s, {sep}, 1) - 1)

\* urllib.parse.unquote_plus on a query name or value: "+" becomes a space
Unquote(s) == [i \in 1..Len(s) |-> IF s[i] = "+" THEN " " ELSE s[i]]

\* urllib.parse.parse_qs(query)["v"][0], <<>> when "v" is not in the result:
\* the pairs are split at "&", each at its first "="; a pair without "=" or
\* with a blank value is dropped (keep_blank_values=False).
RECURSIVE FirstV(_)
FirstV(query) ==
    IF query = <<>> THEN <<>>
    ELSE LET amp == Find(query, {"&"}, 1)
             pair == Upto(query, amp - 1)
             eq == Find(pair, {"="}, 1)
             name == Unquote(Upto(pair, eq - 1))
             value == Unquote(From(pair, eq + 1))
         IN  IF eq <= Len(pair) /\ name = <<"v">> /\ value # <<>>
             THEN value
             ELSE FirstV(From(query, amp + 1))

\* f"https://www.youtube.com/watch?v={vid}"
WatchUrl(vid) == <<"https:", "/", "/", "www.youtube.com", "/", "watch", "?", "v", "=">> \o vid

\* urlparse raises ValueError("Invalid IPv6 URL") for a netloc with an unmatched bracket
UrlparseRaises(u) ==
    LET netloc == urlparse(u).netloc
    IN  (\E i \in 1..Len(netloc) : netloc[i] = "[") /\ ~(\E i \in 1..Len(netloc) : netloc[i] = "]")

\* The two last returns (a /watch path, and anything else) both return u.
normalize_watch_url(url) ==
    IF url = <<>> THEN None
    ELSE LET u == Strip(url, {" "})
             p == urlparse(u)
             host == Lower(p.netloc)
         IN  IF UrlparseRaises(u) THEN Some(url)
             ELSE IF Contains(host, "youtu.be")
             THEN LET vid == FirstPiece(Strip(p.path, {"/"}), "/")
                  IN  IF vid # <<>> THEN Some(WatchUrl(vid)) ELSE None
             ELSE IF Contains(host, "youtube.com")
             THEN IF StartsWith(p.path, <<"/", "shorts", "/">>)
                  THEN Some(WatchUrl(FirstPiece(From(p.path, 4), "/")))
                  ELSE IF FirstV(p.query) # <<>>
                  THEN Some(WatchUrl(FirstV(p.query)))
                  ELSE Some(u)
             ELSE Some(u)

\* --- the arguments tried -------------------------------------------------

IdChars == {"a", "b"}

RECURSIVE Strings(_, _)
Strings(chars, n) ==
    IF n = 0 THEN {<<>>}
    ELSE LET shorter == Strings(chars, n - 1)
         IN  shorter \cup {Append(w, c) : w \in shorter, c \in chars}

\* Video ids: the non-empty strings of id characters up to MaxIdLen
VideoIds == Strings(IdChars, MaxIdLen) \ {<<>>}

HttpsScheme == <<"https:", "/", "/">>
YoutubeHosts == {<<"www.youtube.com">>, <<"youtube.com">>, <<"m.youtube.com">>}
ShortHost == <<"youtu.be">>

Url(host, path, query) == HttpsScheme \o host \o path \o query
Param(name, value) == <<name, "=">> \o value

\* 'https://youtu.be/<id>' and 'https://www.youtube.com/shorts/<id>'
ShortLink(id) == Url(ShortHost, <<"/">> \o id, <<>>)
ShortsPath(id) == <<"/", "shorts", "/">> \o id
ShortsLink(id) == Url(<<"www.youtube.com">>, ShortsPath(id), <<>>)

\* Paths of youtube.com links other than /shorts/...
PlainPaths == {<<>>, <<"/">>, <<"/", "watch">>} \cup {<<"/", "embed", "/">> \o x : x \in VideoIds}

\* Queries that carry v=<id> once, alone or among other parameters
SingleV(id) ==
    { <<"?">> \o Param("v", id),
      <<"?">> \o Param("t", <<"1">>) \o <<"&">> \o Param("v", id),
      <<"?">> \o Param("v", id) \o <<"&">> \o Param("t", <<"1">>) }

\* An id other than id
OtherId(id) == IF id = <<"a">> THEN <<"b">> ELSE <<"a">>

\* Queries that carry v=<id> after another v parameter
DoubleV(id) == { <<"?">> \o Param("v", OtherId(id)) \o <<"&">> \o Param("v", id) }

\* youtube.com links carrying v=<id>: with one v parameter and a path other
\* than /shorts/..., and all of them
QueryLinks(id) == { Url(h, p, q) : h \in YoutubeHosts, p \in PlainPaths, q \in SingleV(id) }
QueryLinksAny(id) ==
    { Url(h, p, q) : h \in YoutubeHosts,
                     p \in PlainPaths \cup {ShortsPath(OtherId(id))},
                     q \in SingleV(id) \cup DoubleV(id) }

Hosts == YoutubeHosts \cup {ShortHost, <<"YOUTU.BE">>, <<"example.com">>, <<"[", "example.com">>}
Paths ==
    PlainPaths \cup {<<"/", "shorts", "/">>}
    \cup UNION { { <<"/">> \o x, <<"/">> \o x \o <<"/">>, ShortsPath(x) } : x \in VideoIds }
Queries ==
    {<<>>, <<"?">> \o Param("v", <<>>), <<"?">> \o Param("t", <<"1">>)}
    \cup UNION { SingleV(x) \cup DoubleV(x) : x \in VideoIds }
Fragments == {<<>>, <<"#", "t">>}
Schemes == {HttpsScheme, <<>>}
\* whitespace before and after
Paddings == { << <<>>, <<>> >>, << <<" ">>, <<>> >>, << <<>>, <<" ">> >> }

NormInputs ==
    {<<>>, <<" ">>}
    \cup { pad[1] \o sch \o h \o p \o q \o f \o pad[2] :
             pad \in Paddings, sch \in Schemes, h \in Hosts, p \in Paths,
             q \in Queries, f \in Fragments }

NormInit ==
    /\ n_url \in NormInputs
    /\ n_pc = "call"
    /\ n_result = None

NormIdle ==
    /\ n_url = <<>>
    /\ n_pc = "idle"
    /\ n_result = None

\* n_result = normalize_watch_url(n_url)
NormalizeCall ==
    /\ NormOnly
    /\ n_pc = "call"
    /\ n_result' = normalize_watch_url(n_url)
    /\ n_pc' = "returned"
    /\ UNCHANGED n_url

\* Short-host and shorts links whose id segment holds "&", "=" or "+"
IdSegments ==
    UNION { { x \o <<"&">> \o Param("t", <<"1">>), x \o <<"=">> \o x, x \o <<"+">> \o x }
            : x \in VideoIds }
IdSegmentLinks == { ShortLink(s) : s \in IdSegments } \cup { ShortsLink(s) : s \in IdSegments }

\* the caller normalizes what the first call returned:
\* n_url, n_result = n_result, normalize_watch_url(n_result)
NormalizeAgain ==
    /\ NormOnly
    /\ n_pc = "returned"
    /\ ~n_result.none
    /\ n_url' = n_result.url
    /\ n_result' = normalize_watch_url(n_result.url)
    /\ n_pc' = "again"

\* C30: normalizing the result of normalize_watch_url gives that result again.
C30_Idempotent == n_pc = "again" => n_result = Some(n_url)

NormNext == NormalizeCall

Recognized(url) ==
    LET p == urlparse(Strip(url, {" "}))
        host == Lower(p.netloc)
    IN  \/ Contains(host, "youtu.be")
        \/ /\ Contains(host, "youtube.com")
           /\ \/ StartsWith(p.path, <<"/", "shorts", "/">>)
              \/ FirstV(p.query) # <<>>
              \/ StartsWith(p.path, <<"/", "watch">>)

\* C15: an input that is none of the recognized forms is returned unchanged,
\* character for character, leading and trailing whitespace included.
C15_OthersPassThrough ==
    (n_pc = "returned" /\ ~Recognized(n_url)) => n_result = Some(n_url)

\* ========================================================================
\* The Metadata Resolver
\*   fetch_header_html, probe_resolutions_labels, height_label  (src/app.py)
\*   get_video_info                                    (src/backend_api.py)
\* A title that is None and a title that is "" are both written "".
\* ========================================================================

FALLBACK_HEIGHTS == <<4320, 2160, 1440, 1080, 720>>

\* mapping.get(h, "Best available" if h is None else f"{h}p")
height_label(h) ==
    CASE h = 4320 -> "4320p (8K)"
      [] h = 2160 -> "2160p (4K)"
      [] h = 1440 -> "1440p (QHD)"
      [] h = 1080 -> "1080p (Full HD)"
      [] h = 720 -> "720p (HD)"
      [] OTHER -> ToString(h) \o "p"

\* ["Best available (MP4)"] + [height_label(h) for h in heights]
VideoLabels(heights) ==
    <<"Best available (MP4)">> \o [i \in 1..Len(heights) |-> height_label(heights[i])]

\* What the library reports for one format: its height (0: none) and its
\* video codec ("none": audio only, "absent": the key is missing).
ProbeFormatSet ==
    [height : {0, 480, 720, 1080}, vcodec : {"avc1", "none"}]
    \cup {[height |-> 1080, vcodec |-> "absent"]}

\* f.get("vcodec") not in ("none", None) and f.get("height")
CountsForProbe(f) == f.vcodec \notin {"none", "absent"} /\ f.height # 0

\* {f.get("height") for f in fmts if ...}
HeightsOf(fmts) == { fmts[i].height : i \in { j \in 1..Len(fmts) : CountsForProbe(fmts[j]) } }

\* sorted(S): ascending; a variant of the probe's ordering
RECURSIVE SortAsc(_)
SortAsc(S) ==
    IF S = {} THEN <<>>
    ELSE LET least == CHOOSE x \in S : \A y \in S : x <= y
         IN  <<least>> \o SortAsc(S \ {least})

\* sorted(S, reverse=True)
RECURSIVE SortDesc(_)
SortDesc(S) ==
    IF S = {} THEN <<>>
    ELSE LET top == CHOOSE x \in S : \A y \in S : y <= x
         IN  <<top>> \o SortDesc(S \ {top})

\* heights = sorted({...}, reverse=True); if not heights: heights = FALLBACK_HEIGHTS
ProbeHeights(fmts) ==
    IF HeightsOf(fmts) = {} THEN FALLBACK_HEIGHTS ELSE SortDesc(HeightsOf(fmts))

\* Titles the three sources may report; " " is one that strip() empties.
EndpointTitles == {"", "Endpoint Title"}
ScrapeTitles == {"", "Scraped Title"}
LibraryTitles == {"", " ", "Sample Video"}
Thumbnails == {"", "thumb.jpg"}

\* (info.get("title") or "").strip()
StripTitle(t) == IF t = " " THEN "" ELSE t

\* Outcome of ydl.extract_info(norm, download=False) in the header step
Info(st, t, th) == [state |-> st, title |-> t, thumbnail |-> th]

MetaInit ==
    /\ h_variant \in {"ui", "api"}
    /\ h_url_ok \in BOOLEAN
    /\ h_oembed \in EndpointTitles
    /\ h_scrape \in ScrapeTitles
    /\ ~h_url_ok => (h_oembed = "" /\ h_scrape = "")
    /\ h_pc = "entry"
    /\ h_asked = <<>>
    /\ h_title = ""
    /\ h_thumb = ""
    /\ h_info = Info("none", "", "")
    /\ h_probe = "none"
    /\ h_formats = <<>>
    /\ h_heights = <<>>
    /\ h_vlabels = <<>>
    /\ h_outcome = "pending"

MetaIdle ==
    /\ h_variant = "ui"
    /\ h_url_ok = FALSE
    /\ h_oembed = ""
    /\ h_scrape = ""
    /\ h_pc = "idle"
    /\ h_asked = <<>>
    /\ h_title = ""
    /\ h_thumb = ""
    /\ h_info = Info("none", "", "")
    /\ h_probe = "none"
    /\ h_formats = <<>>
    /\ h_heights = <<>>
    /\ h_vlabels = <<>>
    /\ h_outcome = "pending"

h_inputs == <<h_variant, h_url_ok, h_oembed, h_scrape>>
h_header == <<h_asked, h_title, h_thumb, h_info>>
h_lists == <<h_probe, h_formats, h_heights, h_vlabels>>

\* The resolution lists are returned and the resolver returns to its caller.
ReturnLists(heights) ==
    /\ h_heights' = heights
    /\ h_vlabels' = VideoLabels(heights)
    /\ h_outcome' = "returned"
    /\ h_pc' = "done"

\* on_url_change with an empty URL: fetch_header_html returns "" and
\* probe_resolutions_labels returns the fallback ladder, both at their first test
MetaEmptyUrl ==
    /\ MetaOnly
    /\ h_pc = "entry"
    /\ h_variant = "ui"
    /\ ~h_url_ok
    /\ ReturnLists(FALLBACK_HEIGHTS)
    /\ UNCHANGED <<h_inputs, h_header, h_probe, h_formats>>

\* A variant that scrapes the page whatever the endpoint returned.
MetaOembed_ThenScrape ==
    /\ MetaOnly
    /\ h_pc = "entry"
    /\ h_variant = "api" \/ h_url_ok
    /\ h_asked' = Append(h_asked, "oembed")
    /\ h_title' = h_oembed
    /\ h_pc' = "scrape"
    /\ UNCHANGED <<h_inputs, h_thumb, h_info, h_lists, h_outcome>>

\* title = oembed_title(norm)
MetaOembed ==
    /\ MetaOnly
    /\ h_pc = "entry"
    /\ h_variant = "api" \/ h_url_ok
    /\ h_asked' = Append(h_asked, "oembed")
    /\ h_title' = h_oembed
    /\ h_pc' = IF h_oembed = "" THEN "scrape" ELSE "library"
    /\ UNCHANGED <<h_inputs, h_thumb, h_info, h_lists, h_outcome>>

\* if not title: title = scrape_exact_title(norm)
MetaScrape ==
    /\ MetaOnly
    /\ h_pc = "scrape"
    /\ h_asked' = Append(h_asked, "scrape")
    /\ h_title' = h_scrape
    /\ h_pc' = "library"
    /\ UNCHANGED <<h_inputs, h_thumb, h_info, h_lists, h_outcome>>

\* try: info = ydl.extract_info(norm, download=False) ... except Exception: pass
MetaInfoRaises ==
    /\ MetaOnly
    /\ h_pc = "library"
    /\ h_info' = Info("raised", "", "")
    /\ h_pc' = "probe"
    /\ UNCHANGED <<h_inputs, h_asked, h_title, h_thumb, h_lists, h_outcome>>

\* thumb = info.get("thumbnail") or "";
\* if not title: title = (info.get("title") or "").strip()
MetaInfoReturns ==
    /\ MetaOnly
    /\ h_pc = "library"
    /\ h_url_ok
    /\ \E t \in LibraryTitles, th \in Thumbnails :
          /\ h_info' = Info("returned", t, th)
          /\ h_thumb' = th
          /\ IF h_title = ""
             THEN h_title' = StripTitle(t) /\ h_asked' = Append(h_asked, "library")
             ELSE UNCHANGED <<h_title, h_asked>>
    /\ h_pc' = "probe"
    /\ UNCHANGED <<h_inputs, h_lists, h_outcome>>

\* get_video_info with an empty URL: probe_resolutions_labels returns at its first test
MetaProbeEmptyUrl ==
    /\ MetaOnly
    /\ h_pc = "probe"
    /\ ~h_url_ok
    /\ ReturnLists(FALLBACK_HEIGHTS)
    /\ UNCHANGED <<h_inputs, h_header, h_probe, h_formats>>

\* probe_resolutions_labels: extract_info raises; except Exception: return the fallback lists
MetaProbeRaises ==
    /\ MetaOnly
    /\ h_pc = "probe"
    /\ h_url_ok
    /\ h_probe' = "raised"
    /\ ReturnLists(FALLBACK_HEIGHTS)
    /\ UNCHANGED <<h_inputs, h_header, h_formats>>

\* probe_resolutions_labels: fmts = info.get("formats") or []; heights = ...; return
MetaProbeReturns ==
    /\ MetaOnly
    /\ h_pc = "probe"
    /\ h_url_ok
    /\ \E fmts \in SeqsUpTo(ProbeFormatSet, MaxProbeFormats) :
          /\ h_formats' = fmts
          /\ ReturnLists(ProbeHeights(fmts))
    /\ h_probe' = "returned"
    /\ UNCHANGED <<h_inputs, h_header>>

MetaNext ==
    \/ MetaEmptyUrl \/ MetaOembed \/ MetaScrape
    \/ MetaInfoRaises \/ MetaInfoReturns
    \/ MetaProbeEmptyUrl \/ MetaProbeRaises \/ MetaProbeReturns

\* C16: when the library's probe raises (in the header step and in the
\* resolution probe), the resolver returns the fallback ladder with an empty
\* title and an empty thumbnail, and raises nothing.
C16_ProbeFailureYieldsDefaults ==
    (h_pc = "done" /\ h_info.state = "raised" /\ h_probe = "raised") =>
        /\ h_outcome = "returned"
        /\ h_vlabels = VideoLabels(FALLBACK_HEIGHTS)
        /\ h_title = ""
        /\ h_thumb = ""

\* The heights a format list offers: those of formats with a video codec.
OfferedHeights(fmts) ==
    { h \in {480, 720, 1080} :
        \E i \in 1..Len(fmts) : fmts[i].height = h /\ fmts[i].vcodec = "avc1" }

\* C17: the resolution list is 'Best available (MP4)' followed by one label per
\* distinct non-zero height of the formats with a video codec, in strictly
\* descending order; the fallback ladder if there is none. Heights
\* {1080, 720, 480} give exactly the four labels of the example.
C17_ResolutionList ==
    (h_pc = "done" /\ h_probe = "returned") =>
        LET offered == OfferedHeights(h_formats)
        IN  /\ h_vlabels[1] = "Best available (MP4)"
            /\ Len(h_vlabels) = Len(h_heights) + 1
            /\ \A i \in 1..Len(h_heights) : h_vlabels[i + 1] = height_label(h_heights[i])
            /\ IF offered = {}
               THEN h_heights = FALLBACK_HEIGHTS
               ELSE /\ { h_heights[i] : i \in 1..Len(h_heights) } = offered
                    /\ \A i, j \in 1..Len(h_heights) : i < j => h_heights[i] > h_heights[j]
            /\ offered = {1080, 720, 480} =>
                 h_vlabels = <<"Best available (MP4)", "1080p (Full HD)", "720p (HD)", "480p">>

C17_Witness ==
    /\ h_pc = "done" /\ h_probe = "returned"
    /\ h_vlabels = <<"Best available (MP4)", "1080p (Full HD)", "720p (HD)", "480p">>

\* C18: the resolved title is the first non-empty one of the endpoint's, the
\* scrape's and the library's, and a source is asked for its title only when
\* every earlier one gave nothing. Endpoint and scrape failing and the library
\* reporting 'Sample Video' gives 'Sample Video'.
C18_TitleOrder ==
    h_pc = "done" =>
        LET library == IF h_info.state = "returned" THEN StripTitle(h_info.title) ELSE ""
            asked == { h_asked[i] : i \in 1..Len(h_asked) }
        IN  /\ h_title = IF h_oembed # "" THEN h_oembed
                         ELSE IF h_scrape # "" THEN h_scrape
                         ELSE library
            /\ "scrape" \in asked => h_oembed = ""
            /\ "library" \in asked => (h_oembed = "" /\ h_scrape = "")
            /\ (h_oembed = "" /\ h_scrape = "" /\ h_info = Info("returned", "Sample Video", ""))
                  => h_title = "Sample Video"

C18_Witness ==
    /\ h_pc = "done" /\ h_oembed = "" /\ h_scrape = ""
    /\ h_asked = <<"oembed", "scrape", "library">>
    /\ h_title = "Sample Video"

\* ========================================================================
\* The name of an audio job's final file
\*   src/app.py          _download_audio_blocking (329-371),
\*                       run_get_full_audio_stream.worker (561-568)
\*   src/backend_api.py  download_audio.generate_audio (487-583)
\* ========================================================================

\* str.replace(old, new): every non-overlapping occurrence, left to right
RECURSIVE Replace(_, _, _)
Replace(s, old, new) ==
    IF s = <<>> THEN <<>>
    ELSE IF Len(s) >= Len(old) /\ SubSeq(s, 1, Len(old)) = old
         THEN new \o Replace(SubSeq(s, Len(old) + 1, Len(s)), old, new)
         ELSE <<Head(s)>> \o Replace(Tail(s), old, new)

Kbps == <<"k", "b", "p", "s">>

\* A variant that passes the label on as it is.
Bitrate_Label(mode, label) == IF mode = "MP3" THEN label ELSE <<"0">>

\* bitrate = bitrate_label.replace(" kbps","") if audio_mode=="MP3" else "0"
\* (the API variant: quality = request.bitrate_label.replace(" kbps", ""), or "0")
Bitrate(mode, label) == IF mode = "MP3" THEN Replace(label, <<" ">> \o Kbps, <<>>) ELSE <<"0">>

\* preferredcodec, quality, final_ext, extract = ... : final_ext and extract
\* (final_ext None is the empty sequence); any other mode raises
AudioSettings(mode) ==
    CASE mode = "Original (OPUS/WebM)" -> [final_ext |-> <<>>, extract |-> FALSE]
      [] mode = "MP3" -> [final_ext |-> <<"m", "p", "3">>, extract |-> TRUE]
      [] mode = "WAV" -> [final_ext |-> <<"w", "a", "v">>, extract |-> TRUE]

\* 'MP3-'+bitrate_kbps+'kbps' if final_ext=='mp3' else 'WAV-lossless'; "ORIGINAL"
NameTag(mode, bitrate) ==
    IF AudioSettings(mode).extract
    THEN IF AudioSettings(mode).final_ext = <<"m", "p", "3">>
         THEN <<"M", "P", "3", "-">> \o bitrate \o Kbps
         ELSE <<"W", "A", "V", "-", "l", "o", "s", "s", "l", "e", "s", "s">>
    ELSE <<"O", "R", "I", "G", "I", "N", "A", "L">>

\* unique_path(dirpath, base, ext) in a directory holding the names in files
unique_path(files, base, ext) ==
    LET b == safe_name(base)
        e == LStripSet(ext, {"."})
        i == CHOOSE k \in 0..Cardinality(files) :
                 /\ ReturnsCand(Candidate(b, e, k), k, files)
                 /\ \A j \in 0..(k - 1) : ~ReturnsCand(Candidate(b, e, j), j, files)
    IN  Candidate(b, e, i)

\* ext = os.path.splitext(produced)[1].lstrip(".") or "webm"
OriginalExt(ext) == IF ext = <<>> THEN <<"w", "e", "b", "m">> ELSE ext

\* base = f"{title}-{...}-{tag}"; download_path = unique_path(work_dir, base, ext).
\* work_dir is the job's own mkdtemp directory; it holds the file the library
\* wrote, named after the title.
download_path(title, mode, label, ext, tag) ==
    LET t == safe_name(title)
        x == IF AudioSettings(mode).extract THEN AudioSettings(mode).final_ext
             ELSE OriginalExt(ext)
        base == t \o <<"-">> \o NameTag(mode, Bitrate(mode, label)) \o <<"-">> \o tag
    IN  unique_path({ t \o <<".">> \o x }, base, x)

AudioModes3 == {"Original (OPUS/WebM)", "MP3", "WAV"}
TitleChars == {"a", " ", ":"}
Titles == UNION { [1..n -> TitleChars] : n \in 0..MaxTitleLen }
Label(digits) == digits \o <<" ">> \o Kbps
\* gr.Dropdown(choices=["320 kbps","256 kbps","192 kbps","128 kbps"]); the API
\* takes any string
Labels == { Label(<<"3", "2", "0">>), Label(<<"2", "5", "6">>), Label(<<"1", "9", "2">>),
            Label(<<"1", "2", "8">>), <<"1", "9", "2">> \o Kbps, <<"1", "9", "2">> }
NowTags == { <<"2", "0", "2", "6", "1", "1", "0", "5", "-", "1", "2", "0", "0", "0", "0">>,
             <<"2", "0", "2", "6", "1", "1", "0", "5", "-", "1", "2", "0", "0", "0", "1">> }

NameInit ==
    /\ w_variant \in {"ui", "api"}
    /\ w_title \in Titles
    /\ w_mode \in AudioModes3 \cup {"FLAC"}
    /\ w_label \in Labels
    /\ w_ext \in { <<>>, <<"w", "e", "b", "m">>, <<"m", "4", "a">> }
    /\ w_tag \in NowTags
    /\ w_pc = "call"
    /\ w_name = <<>>

NameIdle ==
    /\ w_variant = "ui"
    /\ w_title = <<>>
    /\ w_mode = "MP3"
    /\ w_label = <<>>
    /\ w_ext = <<>>
    /\ w_tag = <<>>
    /\ w_pc = "idle"
    /\ w_name = <<>>

\* else: raise RuntimeError("Unsupported audio mode.")
AudioNameUnsupported ==
    /\ NameOnly
    /\ w_pc = "call"
    /\ w_mode \notin AudioModes3
    /\ w_pc' = "raised"
    /\ UNCHANGED <<w_variant, w_title, w_mode, w_label, w_ext, w_tag, w_name>>

\* ... tag = now_tag(); base = ...; download_path = unique_path(...);
\* shutil.move(produced, download_path)
AudioName ==
    /\ NameOnly
    /\ w_pc = "call"
    /\ w_mode \in AudioModes3
    /\ w_name' = download_path(w_title, w_mode, w_label, w_ext, w_tag)
    /\ w_pc' = "named"
    /\ UNCHANGED <<w_variant, w_title, w_mode, w_label, w_ext, w_tag>>

NameNext == AudioNameUnsupported \/ AudioName

\* s ends with t
EndsWith(s, t) == Len(s) >= Len(t) /\ SubSeq(s, Len(s) - Len(t) + 1, Len(s)) = t

\* C22: an MP3 job with label "192 kbps" names its file
\* "<sanitized title>-MP3-192kbps-<tag>.mp3"; and the name tags of the three
\* modes, ORIGINAL, MP3-<bitrate>kbps and WAV-lossless, are pairwise distinct.
C22_AudioFileName ==
    w_pc = "named" =>
        /\ (w_mode = "MP3" /\ w_label = Label(<<"1", "9", "2">>)) =>
              w_name = safe_name(w_title)
                       \o <<"-", "M", "P", "3", "-", "1", "9", "2", "k", "b", "p", "s", "-">>
                       \o w_tag \o <<".", "m", "p", "3">>
        /\ \A d \in {<<"3", "2", "0">>, <<"2", "5", "6">>, <<"1", "2", "8">>} :
              (w_mode = "MP3" /\ w_label = Label(d)) =>
                  w_name = safe_name(w_title) \o <<"-", "M", "P", "3", "-">> \o d \o Kbps
                           \o <<"-">> \o w_tag \o <<".", "m", "p", "3">>
        /\ w_mode = "WAV" =>
              w_name = safe_name(w_title)
                       \o <<"-", "W", "A", "V", "-", "l", "o", "s", "s", "l", "e", "s", "s", "-">>
                       \o w_tag \o <<".", "w", "a", "v">>
        /\ w_mode = "Original (OPUS/WebM)" =>
              \E x \in { <<"w", "e", "b", "m">>, <<"m", "4", "a">> } :
                  w_name = safe_name(w_title)
                           \o <<"-", "O", "R", "I", "G", "I", "N", "A", "L", "-">>
                           \o w_tag \o <<".">> \o x
        /\ \A m1, m2 \in AudioModes3 : \A l1, l2 \in Labels :
              m1 # m2 => NameTag(m1, Bitrate(m1, l1)) # NameTag(m2, Bitrate(m2, l2))

C22_Witness ==
    /\ w_pc = "named"
    /\ w_mode = "MP3"
    /\ w_label = Label(<<"1", "9", "2">>)
    /\ w_title = <<"a", ":">>
    /\ EndsWith(w_name, <<".", "m", "p", "3">>)

\* ========================================================================
\* The format options of a video or audio job, in both variants
\*   src/app.py          build_format_string (278-282), build_format_sort
\*                       (284-287), _download_video_blocking (313-318),
\*                       _download_audio_blocking (343-347)
\*   src/backend_api.py  download_video.generate_video (605-628),
\*                       download_audio.generate_audio (499-517)
\* Strings are sequences of pieces; an absent key is the empty sequence.
\* ========================================================================

\* v = "bestvideo"; a = "bestaudio"; if mp4_compat: v += "[ext=mp4]"; a += "[ext=m4a]"
\* if height: v += f"[height<={height}]"; return f"{v}+{a}/best"
build_format_string(height, mp4_compat) ==
    LET v0 == <<"bestvideo">>
        a0 == <<"bestaudio">>
        v1 == IF mp4_compat THEN v0 \o <<"[ext=mp4]">> ELSE v0
        a1 == IF mp4_compat THEN a0 \o <<"[ext=m4a]">> ELSE a0
        v2 == IF height # 0 THEN v1 \o <<"[height<=", ToString(height), "]">> ELSE v1
    IN  v2 \o <<"+">> \o a1 \o <<"/best">>

build_format_sort(preset) ==
    IF preset = "Best quality (modern)"
    THEN <<"res", "fps", "hdr", "codec:av01:vp9.2:vp9:h264", "acodec:opus:m4a", "br">>
    ELSE IF preset = "MP4 compatibility"
         THEN <<"res", "fps", "codec:h264", "acodec:m4a", "br">>
         ELSE <<"res", "fps", "hdr", "br">>

Opts(f, srt) == [format |-> f, format_sort |-> srt, built |-> TRUE]
NoOpts == [format |-> <<>>, format_sort |-> <<>>, built |-> FALSE]

\* _download_video_blocking: ydl_opts["format"] = build_format_string(height, mp4_compat);
\* ydl_opts["format_sort"] = build_format_sort(quality_preset)
\* _download_audio_blocking: ydl_opts["format"] = "bestaudio/best"
UiOpts(k, height, mp4_compat, preset) ==
    IF k = "video"
    THEN Opts(build_format_string(height, mp4_compat), build_format_sort(preset))
    ELSE Opts(<<"bestaudio", "/best">>, <<>>)

\* generate_video: the same construction written out in place
\* generate_audio: ydl_opts = {**YTDLP_COMMON, "outtmpl": ..., "merge_output_format": "mp4",
\*     "logger": ...}, then the postprocessor: no "format" and no "format_sort" key
ApiOpts(k, height, mp4_compat, preset) ==
    IF k = "video"
    THEN LET v == <<"bestvideo">> \o (IF mp4_compat THEN <<"[ext=mp4]">> ELSE <<>>)
                  \o (IF height # 0 THEN <<"[height<=", ToString(height), "]">> ELSE <<>>)
             a == <<"bestaudio">> \o (IF mp4_compat THEN <<"[ext=m4a]">> ELSE <<>>)
             srt == IF preset = "Best quality (modern)"
                    THEN <<"res", "fps", "hdr", "codec:av01:vp9.2:vp9:h264",
                           "acodec:opus:m4a", "br">>
                    ELSE IF preset = "MP4 compatibility"
                         THEN <<"res", "fps", "codec:h264", "acodec:m4a", "br">>
                         ELSE <<"res", "fps", "hdr", "br">>
         IN  Opts(v \o <<"+">> \o a \o <<"/best">>, srt)
    ELSE Opts(<<>>, <<>>)

\* parse_height_from_label's results for the labels offered, and None ("Best")
Heights == {0, 720, 1080, 2160}
Presets == {"Best quality (modern)", "MP4 compatibility", "Balanced"}

OptsInit ==
    /\ o_kind \in {"video", "audio"}
    /\ o_height \in Heights
    /\ o_mp4 \in BOOLEAN
    /\ o_preset \in Presets
    /\ o_mode \in AudioModes3
    /\ o_ui = NoOpts
    /\ o_api = NoOpts

OptsIdle ==
    /\ o_kind = "video"
    /\ o_height = 0
    /\ o_mp4 = FALSE
    /\ o_preset = "Balanced"
    /\ o_mode = "MP3"
    /\ o_ui = NoOpts
    /\ o_api = NoOpts

\* the UI variant builds its options for the request
UiBuild ==
    /\ OptsOnly
    /\ ~o_ui.built
    /\ o_ui' = UiOpts(o_kind, o_height, o_mp4, o_preset)
    /\ UNCHANGED <<o_kind, o_height, o_mp4, o_preset, o_mode, o_api>>

\* the API variant builds its options for the same request
ApiBuild ==
    /\ OptsOnly
    /\ ~o_api.built
    /\ o_api' = ApiOpts(o_kind, o_height, o_mp4, o_preset)
    /\ UNCHANGED <<o_kind, o_height, o_mp4, o_preset, o_mode, o_ui>>

OptsNext == UiBuild \/ ApiBuild

\* C26: for the same request the two variants hand the library the same format
\* expression and the same format-sort order, for video and for audio jobs.
C26_SameFormatOptions ==
    (o_ui.built /\ o_api.built) =>
        /\ o_ui.format = o_api.format
        /\ o_ui.format_sort = o_api.format_sort

\* ========================================================================
\* Specifications
\* ========================================================================

\* a full-audio / full-video job with its worker thread and poll loop
Init == JobInit /\ PathIdle /\ PickIdle /\ ShotsIdle /\ ApiIdle /\ DownloadIdle
        /\ MediaIdle /\ NormIdle /\ MetaIdle /\ NameIdle /\ OptsIdle
Next == JobNext
Spec == Init /\ [][Next]_vars

\* the same job, with a worker thread and a generator that keep running
SpecFair == Spec /\ WF_vars(WorkerStep) /\ WF_vars(PollStep)

\* unique_path called by one caller at a time
InitPath == JobIdle /\ PathInit /\ ~concurrent /\ PickIdle /\ ShotsIdle /\ ApiIdle
            /\ DownloadIdle /\ MediaIdle /\ NormIdle /\ MetaIdle /\ NameIdle /\ OptsIdle
SpecPath == InitPath /\ [][PathNext]_vars

\* unique_path called by concurrent jobs
InitPathRace == JobIdle /\ PathInit /\ concurrent /\ PickIdle /\ ShotsIdle /\ ApiIdle
                /\ DownloadIdle /\ MediaIdle /\ NormIdle /\ MetaIdle /\ NameIdle /\ OptsIdle
SpecPathRace == InitPathRace /\ [][PathNext]_vars

\* pick_stream_url over the formats of one video
InitPick == JobIdle /\ PathIdle /\ PickInit /\ ShotsIdle /\ ApiIdle /\ DownloadIdle
            /\ MediaIdle /\ NormIdle /\ MetaIdle /\ NameIdle /\ OptsIdle
SpecPick == InitPick /\ [][PickNext]_vars

\* a screenshot job of the UI variant
InitShots == JobIdle /\ PathIdle /\ PickIdle /\ ShotsInit /\ ApiIdle /\ DownloadIdle
             /\ MediaIdle /\ NormIdle /\ MetaIdle /\ NameIdle /\ OptsIdle
SpecShots == InitShots /\ [][ShotsNext]_vars

\* a screenshot job of the HTTP API variant
InitApiShots == JobIdle /\ PathIdle /\ PickIdle /\ ShotsIdle /\ ApiInit /\ DownloadIdle
                /\ MediaIdle /\ NormIdle /\ MetaIdle /\ NameIdle /\ OptsIdle
SpecApiShots == InitApiShots /\ [][ApiNext]_vars

\* requests to GET /api/download/{filename}
InitDownload == JobIdle /\ PathIdle /\ PickIdle /\ ShotsIdle /\ ApiIdle /\ DownloadInit
                /\ MediaIdle /\ NormIdle /\ MetaIdle /\ NameIdle /\ OptsIdle
SpecDownload == InitDownload /\ [][DownloadNext]_vars

\* two screenshot requests, one to the UI variant and one to the HTTP API
\* variant, at least one of which validation rejects
InitBothShots == JobIdle /\ PathIdle /\ PickIdle /\ ShotsInit /\ ApiInit /\ DownloadIdle
                 /\ MediaIdle /\ NormIdle /\ MetaIdle /\ NameIdle /\ OptsIdle
                 /\ (InvalidRequest(s_url_ok, s_interval) \/ InvalidRequest(a_url_ok, a_interval))
SpecBothShots == InitBothShots /\ [][ShotsNext \/ ApiNext]_vars

\* a video or audio job of the HTTP API variant
InitApiMedia == JobIdle /\ PathIdle /\ PickIdle /\ ShotsIdle /\ ApiIdle /\ DownloadIdle
                /\ MediaInit /\ NormIdle /\ MetaIdle /\ NameIdle /\ OptsIdle
SpecApiMedia == InitApiMedia /\ [][MediaNext]_vars

\* one call of normalize_watch_url
InitNorm == JobIdle /\ PathIdle /\ PickIdle /\ ShotsIdle /\ ApiIdle /\ DownloadIdle
            /\ MediaIdle /\ NormInit /\ MetaIdle /\ NameIdle /\ OptsIdle
SpecNorm == InitNorm /\ [][NormNext]_vars

\* one run of the Metadata Resolver
InitMeta == JobIdle /\ PathIdle /\ PickIdle /\ ShotsIdle /\ ApiIdle /\ DownloadIdle
            /\ MediaIdle /\ NormIdle /\ MetaInit /\ NameIdle /\ OptsIdle
SpecMeta == InitMeta /\ [][MetaNext]_vars

\* A screenshot job that its consumer may abandon at a yield of the sampling loop.
SpecShotsClose == InitShots /\ [][ShotsNext \/ SampleClosed]_vars

\* the name of an audio job's final file
InitName == JobIdle /\ PathIdle /\ PickIdle /\ ShotsIdle /\ ApiIdle /\ DownloadIdle
            /\ MediaIdle /\ NormIdle /\ MetaIdle /\ NameInit /\ OptsIdle
SpecName == InitName /\ [][NameNext]_vars

\* the format options of one request in both variants
InitOpts == JobIdle /\ PathIdle /\ PickIdle /\ ShotsIdle /\ ApiIdle /\ DownloadIdle
            /\ MediaIdle /\ NormIdle /\ MetaIdle /\ NameIdle /\ OptsInit
SpecOpts == InitOpts /\ [][OptsNext]_vars

\* a video/audio job of a session that may already hold a downloaded file
InitJobList == /\ \E g \in GivenLists : JobStart(g)
               /\ PathIdle /\ PickIdle /\ ShotsIdle /\ ApiIdle /\ DownloadIdle
               /\ MediaIdle /\ NormIdle /\ MetaIdle /\ NameIdle /\ OptsIdle
SpecJobList == InitJobList /\ [][JobNext]_vars

\* normalize_watch_url applied to a link and then to its own result
InitNormTwice == /\ n_url \in NormInputs \cup IdSegmentLinks
                 /\ n_pc = "call"
                 /\ n_result = None
                 /\ JobIdle /\ PathIdle /\ PickIdle /\ ShotsIdle /\ ApiIdle /\ DownloadIdle
                 /\ MediaIdle /\ MetaIdle /\ NameIdle /\ OptsIdle
SpecNormTwice == InitNormTwice /\ [][NormalizeCall \/ NormalizeAgain]_vars

====
